---- MODULE Spec2Model ----
(***************************************************************************)
(* Tabyst: tab suggestions (background.js, hybrid-scoring.js, lite-mode.js, *)
(* storage.js), the relationship graph (relationships.js over db.js) and    *)
(* the workflow predictions they consume (workflows.js).                    *)
(*                                                                         *)
(* Units.  Date.now() is counted in seconds.  Scores and relationship       *)
(* strengths are JavaScript numbers in [0,1]; they are kept as integers in  *)
(* units of 1/10000 (0.3 is 3000), which is exact for every value the       *)
(* model reaches.  Signals and confidences are in units of 1/100.           *)
(*                                                                         *)
(* Identifiers.  A Chrome tab id is a JavaScript number; a Tab Document id  *)
(* is the string `tab_${tab.id}_${Date.now()}`; a relationship id is the    *)
(* string `rel_${Date.now()}_${random}`.  All three are kept as tagged      *)
(* triples so that a comparison between two of them is decided by what the  *)
(* values are, as === and an IndexedDB key lookup decide it.                *)
(***************************************************************************)
EXTENDS Integers, Sequences, FiniteSets, TLC

VARIABLES
  now,                \* Date.now(), in seconds
  tabsIndex,          \* db store tabs_index: the Tab Documents
  relationships,      \* db store tab_relationships
  relSeq,             \* number of relationship ids generated so far
  navigationHistory,  \* db store navigation_history, in insertion order
  lastSweep,          \* what the enrichment sweep of the last step examined
  allTabs,            \* the window's open tabs, chrome.tabs.query order
  workflows,          \* db store workflows
  hotCache,           \* chrome.storage.local key hotCache
  req,                \* the last suggestion request's inputs
  result,             \* the list the last suggestion request returned
  isIndexing,         \* cold-start.js: a bulk pass is running
  indexingQueue,      \* cold-start.js: the tabs of the bulk pass
  currentIndex,       \* cold-start.js: the position of the bulk pass
  calls,              \* cold-start.js: the calls that are under way
  trace,              \* what the bulk pass did so far
  onlineQueue,        \* online-indexing.js: indexingQueue
  isProcessing,       \* online-indexing.js: processQueue is running
  processing,         \* online-indexing.js: the item processQueue is at
  onlineTrace,        \* what the incremental queue did so far
  tfidf,              \* tfidf.js: an instance of class TFIDF
  tfidfIndex,         \* chrome.storage.local key tfidfIndex
  updaters,           \* the Text Index updates that are under way
  textLog,            \* what the last step on the Text Index did
  handlers,           \* the onActivated handlers that are under way
  eventLog,           \* what the listeners did so far
  sweeping,           \* the decay sweep that is under way
  aiAvailable         \* the device has the built-in AI

vars == <<now, tabsIndex, relationships, relSeq, navigationHistory, lastSweep,
          allTabs, workflows, hotCache, req, result,
          isIndexing, indexingQueue, currentIndex, calls, trace,
          onlineQueue, isProcessing, processing, onlineTrace,
          tfidf, tfidfIndex, updaters, textLog, handlers, eventLog, sweeping,
          aiAvailable>>

relVars == <<tabsIndex, relationships, relSeq, navigationHistory, lastSweep>>
suggestVars == <<allTabs, workflows, hotCache, req, result>>
coldVars == <<isIndexing, indexingQueue, currentIndex, calls, trace>>
onlineVars == <<onlineQueue, isProcessing, processing, onlineTrace>>
indexVars == <<coldVars, onlineVars>>
textVars == <<tfidf, tfidfIndex, updaters, textLog>>
eventVars == <<handlers, eventLog, sweeping, aiAvailable>>

(***************************************************************************)
(* Bounds of the model.                                                    *)
(***************************************************************************)
MaxTabs == 2        \* tabs of the relationship graph: Chrome tab ids 1..MaxTabs
MaxRels == 2        \* relationship records ever created
MaxNav == 2         \* navigation events ever recorded
MaxTicks == 3       \* the clock of the relationship graph makes this many steps
WindowTabs == 3     \* tabs of the window suggestions are asked in
TopTabs == 12       \* tabs of the large window
MaxClock == 2       \* the clock of the suggestions makes this many steps

TabIds == 1..MaxTabs

Min(a, b) == IF a < b THEN a ELSE b
Max(a, b) == IF a > b THEN a ELSE b

\* new TFIDF(): a Map is the sequence of its <<key, value>> entries in the
\* order of their insertion
NewTFIDF == [documents |-> <<>>, documentFreq |-> <<>>, termFreqs |-> <<>>,
             globalTermFreq |-> <<>>, totalTermCount |-> 0]
NoTextLog == [op |-> "none", id |-> 0, text |-> <<>>, before |-> NewTFIDF,
              score |-> 0, adds |-> 0, updated |-> {}]
NoEventLog == [started |-> 0, activated |-> <<>>, swept |-> <<>>, failed |-> <<>>]

\* the module state of cold-start.js and online-indexing.js when they are
\* loaded, nothing under way and nothing done, and an empty storage
NoCalls == [fresh |-> 0, late |-> 0, pending |-> 0, inFlight |-> <<>>]
NoTrace == [begun |-> <<>>, paused |-> FALSE, starts |-> 0, finished |-> FALSE]
IndexingIdle ==
  /\ isIndexing = FALSE
  /\ indexingQueue = <<>>
  /\ currentIndex = 0
  /\ calls = NoCalls
  /\ trace = NoTrace
  /\ onlineQueue = <<>>
  /\ isProcessing = FALSE
  /\ processing = <<>>
  /\ onlineTrace = <<>>
  /\ tfidf = NewTFIDF
  /\ tfidfIndex = <<>>
  /\ updaters = {}
  /\ textLog = NoTextLog
  /\ handlers = {}
  /\ eventLog = NoEventLog
  /\ sweeping = <<>>
  /\ aiAvailable = TRUE

(***************************************************************************)
(* Identifiers and values.                                                 *)
(***************************************************************************)
JsNum(n) == <<"number", n, 0>>
DocId(tabId, at) == <<"tab", tabId, at>>
RelKey(at, rnd) == <<"rel", at, rnd>>
\* `workflow_${Date.now()}_${random}`
WorkflowId(at, rnd) == <<"workflow", at, rnd>>

\* a === b on tagged values
StrictEq(a, b) == a[1] = b[1] /\ a[2] = b[2] /\ a[3] = b[3]

\* 7 * 24 * 60 * 60 * 1000 ms, in seconds
oneWeek == 7 * 24 * 60 * 60

(***************************************************************************)
(* db.js: tabs_index.                                                      *)
(***************************************************************************)
\* IndexedDB orders the string keys `tab_<tabId>_<ms>`; for tab ids of one
\* digit and timestamps of one length that is the order of (tabId, at).
KeyBefore(k1, k2) == k1[2] < k2[2] \/ (k1[2] = k2[2] /\ k1[3] < k2[3])

\* index('tabId').get(tabId): the first record of the index, or none
getTabByTabId(docs, tabId) ==
  LET hits == {d \in docs : d.tabId = tabId}
  IN  {d \in hits : \A e \in hits : e.id = d.id \/ KeyBefore(d.id, e.id)}

\* the document of a closed tab is deleted
removeClosed(docs, tabId) == docs \ getTabByTabId(docs, tabId)

\* the onRemoved listener: updateTab(dbEntry.id, {flags: {...dbEntry.flags,
\* isActive: false}}) on the document getTabByTabId returns, if any
markInactive(docs, tabId) ==
  {IF d \in getTabByTabId(docs, tabId) THEN [d EXCEPT !.isActive = FALSE] ELSE d :
     d \in docs}

\* store.get(id)
getTab(docs, id) == {d \in docs : StrictEq(d.id, id)}

\* addTab of a lite entry (content null, isActive, not isIndexed)
LiteEntry(tabId, at) ==
  [id |-> DocId(tabId, at), tabId |-> tabId, url |-> tabId,
   isActive |-> TRUE, isIndexed |-> FALSE, entities |-> {}, topics |-> {},
   accessCount |-> 0]

(***************************************************************************)
(* db.js: tab_relationships.                                               *)
(***************************************************************************)
\* getRelationship(id): store.get(id) on the primary key.  It has ONE
\* parameter: a second argument of a call is ignored.
getRelationship(rels, id) == {r \in rels : StrictEq(r.id, id)}

\* a relationship created at strength 0.8 instead of 0.3
NewRelationshipStrong(tab1, tab2, reason, at, rnd) ==
  [id |-> RelKey(at, rnd), tab1Id |-> tab1.id, tab2Id |-> tab2.id,
   strength |-> 8000, type |-> reason,
   lastAccessedAt |-> at, accessCount |-> 1,
   sharedEntities |-> {}, sharedTopics |-> {}, semanticScore |-> 0,
   isAIEnriched |-> FALSE]

\* addRelationship of the record createBasicRelationships builds
NewRelationship(tab1, tab2, reason, at, rnd) ==
  [id |-> RelKey(at, rnd), tab1Id |-> tab1.id, tab2Id |-> tab2.id,
   strength |-> 3000, type |-> reason,
   lastAccessedAt |-> at, accessCount |-> 1,
   sharedEntities |-> {}, sharedTopics |-> {}, semanticScore |-> 0,
   isAIEnriched |-> FALSE]

(***************************************************************************)
(* relationships.js                                                        *)
(***************************************************************************)
\* strengthenRelationship(relationshipId): nothing when the record is gone
strengthenRelationship(rels, relationshipId, at) ==
  {IF StrictEq(r.id, relationshipId)
     THEN [r EXCEPT !.strength = Min(r.strength + 1000, 10000),
                    !.accessCount = r.accessCount + 1,
                    !.lastAccessedAt = at]
     ELSE r : r \in rels}

\* createBasicRelationships(tab1Id, tab2Id, reason).  The lookup is
\* db.getRelationship(tab1.id, tab2.id): the store is read at the primary
\* key tab1.id, a Tab Document id; tab2.id is dropped.
createBasicRelationships(rels, docs, tab1Id, tab2Id, reason, at, rnd) ==
  LET t1 == getTabByTabId(docs, tab1Id)
      t2 == getTabByTabId(docs, tab2Id)
  IN  IF t1 = {} \/ t2 = {} THEN rels
      ELSE LET tab1 == CHOOSE d \in t1 : TRUE
               tab2 == CHOOSE d \in t2 : TRUE
               existing == getRelationship(rels, tab1.id)
           IN  IF existing # {}
                 THEN strengthenRelationship(rels, (CHOOSE e \in existing : TRUE).id, at)
                 ELSE rels \cup {NewRelationship(tab1, tab2, reason, at, rnd)}

\* what the Prompt API answered for one pair: null (API missing, unavailable
\* or failing), or a similarity score clamped to [0,1] and a type
NoAnalysis == [available |-> FALSE, semanticScore |-> 0, relationshipType |-> "unrelated"]
Analysis(score, type) == [available |-> TRUE, semanticScore |-> score, relationshipType |-> type]

\* sharedX.length / allX.size, 0 for an empty union
Overlap(s1, s2) ==
  IF s1 \cup s2 = {} THEN 0
  ELSE (10000 * Cardinality(s1 \cap s2)) \div Cardinality(s1 \cup s2)

jaccardScore(e1, e2, t1, t2) == (Overlap(e1, e2) + Overlap(t1, t2)) \div 2

\* the pruning test with its threshold at 0.1
isUnrelatedBelowTenth(semanticScore, sharedEntities, sharedTopics) ==
  semanticScore < 1000 /\ sharedEntities = {} /\ sharedTopics = {}

\* "Delete relationship if clearly unrelated"
isUnrelated(semanticScore, sharedEntities, sharedTopics) ==
  semanticScore < 2000 /\ sharedEntities = {} /\ sharedTopics = {}

\* finalStrength: the cap at 1 is applied only with a semantic analysis
finalStrength(strength, jaccard, analysis) ==
  LET base == strength + (jaccard * 3) \div 10
  IN  IF analysis.available
        THEN Min(base + (analysis.semanticScore * 4) \div 10, 10000)
        ELSE base

\* an iteration that skips the relationship unless both of its documents
\* are indexed
EnrichBothOnly(rel, docs, answer) ==
  LET tab1 == getTab(docs, rel.tab1Id)
      tab2 == getTab(docs, rel.tab2Id)
      entities1 == UNION {d.entities : d \in tab1}
      entities2 == UNION {d.entities : d \in tab2}
      topics1 == UNION {d.topics : d \in tab1}
      topics2 == UNION {d.topics : d \in tab2}
  IN  IF ~(\E d \in tab1 : d.isIndexed) \/ ~(\E d \in tab2 : d.isIndexed) THEN {rel}
      ELSE IF isUnrelated(answer.semanticScore, entities1 \cap entities2,
                          topics1 \cap topics2)
        THEN {}
      ELSE {[rel EXCEPT
               !.type = IF answer.available THEN answer.relationshipType ELSE rel.type,
               !.sharedEntities = entities1 \cap entities2,
               !.sharedTopics = topics1 \cap topics2,
               !.semanticScore = answer.semanticScore,
               !.strength = finalStrength(rel.strength,
                                jaccardScore(entities1, entities2, topics1, topics2),
                                answer),
               !.isAIEnriched = TRUE]}

\* one iteration of enrichRelationshipsWithAI's loop over toEnrich: what
\* is left of rel in the store (nothing, rel itself, or rel enriched)
EnrichOne(rel, docs, answer) ==
  LET tab1 == getTab(docs, rel.tab1Id)
      tab2 == getTab(docs, rel.tab2Id)
      tab1Indexed == \E d \in tab1 : d.isIndexed
      tab2Indexed == \E d \in tab2 : d.isIndexed
      entities1 == UNION {d.entities : d \in tab1}
      entities2 == UNION {d.entities : d \in tab2}
      topics1 == UNION {d.topics : d \in tab1}
      topics2 == UNION {d.topics : d \in tab2}
      sharedEntities == entities1 \cap entities2
      sharedTopics == topics1 \cap topics2
      semanticAnalysis == IF tab1Indexed /\ tab2Indexed THEN answer ELSE NoAnalysis
  IN  IF ~tab1Indexed /\ ~tab2Indexed THEN {rel}
      ELSE IF isUnrelated(semanticAnalysis.semanticScore, sharedEntities, sharedTopics)
        THEN {}
      ELSE {[rel EXCEPT
               !.type = IF semanticAnalysis.available
                          THEN semanticAnalysis.relationshipType ELSE rel.type,
               !.sharedEntities = sharedEntities,
               !.sharedTopics = sharedTopics,
               !.semanticScore = semanticAnalysis.semanticScore,
               !.strength = finalStrength(rel.strength,
                                jaccardScore(entities1, entities2, topics1, topics2),
                                semanticAnalysis),
               !.isAIEnriched = TRUE]}

\* the relationships the sweep gets past its "no AI data" skip, with what it
\* found for each
Examined(rels, docs, answers) ==
  LET gate(r) == \E d \in getTab(docs, r.tab1Id) \cup getTab(docs, r.tab2Id) : d.isIndexed
      both(r) == (\E d \in getTab(docs, r.tab1Id) : d.isIndexed)
                 /\ (\E d \in getTab(docs, r.tab2Id) : d.isIndexed)
  IN  {[id |-> r.id,
        strength |-> r.strength,
        analysed |-> both(r),
        semanticScore |-> IF both(r) THEN answers[r.id].semanticScore ELSE 0,
        sharedEntities |-> UNION {d.entities : d \in getTab(docs, r.tab1Id)}
                           \cap UNION {d.entities : d \in getTab(docs, r.tab2Id)},
        sharedTopics |-> UNION {d.topics : d \in getTab(docs, r.tab1Id)}
                         \cap UNION {d.topics : d \in getTab(docs, r.tab2Id)}]
       : r \in {q \in rels : ~q.isAIEnriched /\ gate(q)}}

\* a sweep that takes up the enriched relationships again, with no semantic
\* analysis for them
enrichAgain(rels, docs, answers) ==
  UNION {EnrichOne(r, docs, IF r.isAIEnriched THEN NoAnalysis ELSE answers[r.id])
           : r \in rels}

\* enrichRelationshipsWithAI(): every relationship not yet AI-enriched
enrichRelationshipsWithAI(rels, docs, answers) ==
  UNION {IF r.isAIEnriched THEN {r} ELSE EnrichOne(r, docs, answers[r.id]) : r \in rels}

\* the decay amount without its cap of 0.3
decayAmountUncapped(timeSinceAccess) ==
  (timeSinceAccess * 5) \div (oneWeek \div 100)

\* min(weeksInactive * 0.05, 0.3) for an age in seconds
decayAmount(timeSinceAccess) ==
  Min((timeSinceAccess * 5) \div (oneWeek \div 100), 3000)

\* one iteration of applyRelationshipDecay's loop
DecayOne(rel, at) ==
  LET timeSinceAccess == at - rel.lastAccessedAt
      newStrength == Max(rel.strength - decayAmount(timeSinceAccess), 0)
  IN  IF timeSinceAccess > oneWeek
        THEN IF newStrength < 1000 THEN {} ELSE {[rel EXCEPT !.strength = newStrength]}
        ELSE {rel}

applyRelationshipDecay(rels, at) == UNION {DecayOne(r, at) : r \in rels}

(***************************************************************************)
(* The relationship graph as a state machine: Tab Documents are indexed,   *)
(* the user follows suggestions, the sweeps run, time passes.  Each        *)
(* handler and each sweep is one step.  The navigation stack and the usage *)
(* statistics of handleTabSwitch are display state and are left out.       *)
(***************************************************************************)
\* the clock advances in steps of twenty days
tick == 20 * 24 * 60 * 60

\* what the AI extraction finds in a page: entities and topics
Contents ==
  {[entities |-> {}, topics |-> {}],
   [entities |-> {"acme"}, topics |-> {"databases"}],
   [entities |-> {"acme", "google"}, topics |-> {}]}

SemOutcomes ==
  {NoAnalysis, Analysis(1000, "unrelated"), Analysis(10000, "same-project")}

genericWords == {"google"}

\* db.getAllTabs(): the store in key order
RECURSIVE getAllTabs(_)
getAllTabs(docs) ==
  IF docs = {} THEN <<>>
  ELSE LET first == CHOOSE d \in docs : \A e \in docs : e.id = d.id \/ KeyBefore(d.id, e.id)
       IN  <<first>> \o getAllTabs(docs \ {first})

\* array.filter(keep) on a sequence, for a set of kept elements
RECURSIVE Filter(_, _)
Filter(s, keep) ==
  IF s = <<>> THEN <<>>
  ELSE (IF Head(s) \in keep THEN <<Head(s)>> ELSE <<>>) \o Filter(Tail(s), keep)

\* a slice that keeps everything
KeepAll(s, n) == s

\* array.slice(0, n)
FirstN(s, n) == SubSeq(s, 1, Min(Len(s), n))

\* the pairs (s[i], s[j]), i < j, in the order of the nested loops
RECURSIVE PairsOf(_)
PairsOf(s) ==
  IF Len(s) < 2 THEN <<>>
  ELSE [j \in 1..(Len(s) - 1) |-> <<s[1], s[j + 1]>>] \o PairsOf(Tail(s))

hasMeaningfulOverlap(tab1, tab2) ==
  \/ (tab1.entities \ genericWords) \cap (tab2.entities \ genericWords) # {}
  \/ (tab1.topics \ genericWords) \cap (tab2.topics \ genericWords) # {}

\* the body of the content loops of initializeRelationships and
\* indexTabOnline, over the pairs they visit
RECURSIVE CreateContentRelationships(_, _, _, _, _)
CreateContentRelationships(rels, docs, pairs, at, rnd) ==
  IF pairs = <<>> THEN rels
  ELSE LET tab1 == Head(pairs)[1]
           tab2 == Head(pairs)[2]
           next == IF hasMeaningfulOverlap(tab1, tab2) /\ getRelationship(rels, tab1.id) = {}
                     THEN createBasicRelationships(rels, docs, tab1.tabId, tab2.tabId,
                                                   "content", at, rnd)
                     ELSE rels
       IN  CreateContentRelationships(next, docs, Tail(pairs), at,
                                      rnd + Cardinality(next \ rels))

\* the pairs whose similarity the sweep asks the Prompt API for
Asked(rels, docs) ==
  {r.id : r \in {q \in rels : /\ ~q.isAIEnriched
                              /\ \E d \in getTab(docs, q.tab1Id) : d.isIndexed
                              /\ \E d \in getTab(docs, q.tab2Id) : d.isIndexed}}

\* the sweep as a step on the store and on the log of what it examined
Sweep(rels, docs, answers) ==
  /\ relationships' = enrichRelationshipsWithAI(rels, docs, answers)
  /\ lastSweep' = Examined(rels, docs, answers)

InitRel ==
  /\ now = 0
  /\ tabsIndex = {LiteEntry(k, 0) : k \in 1..(MaxTabs - 1)}
  /\ relationships = {}
  /\ relSeq = 0
  /\ navigationHistory = <<>>
  /\ lastSweep = {}
  /\ allTabs = <<>>
  /\ workflows = {}
  /\ hotCache = [suggestions |-> <<>>]
  /\ req = <<>>
  /\ result = <<>>
  /\ IndexingIdle
\* cold-start performIndexing(tab): the tab's document gets its content and
\* the isIndexed flag
PerformIndexing(k, c) ==
  /\ \E dbEntry \in getTabByTabId(tabsIndex, k) :
       /\ ~dbEntry.isIndexed
       /\ tabsIndex' = (tabsIndex \ {dbEntry}) \cup
            {[dbEntry EXCEPT !.entities = c.entities, !.topics = c.topics,
                             !.isIndexed = TRUE]}
  /\ lastSweep' = {}
  /\ UNCHANGED <<now, relationships, relSeq, navigationHistory, suggestVars,
                 indexVars, textVars, eventVars>>

\* onUpdated for a page not yet in the store, then indexTabOnline(tab): the
\* lite entry, and when the extraction succeeds (ok) the content, the content
\* relationships with the other indexed documents, and a sweep
IndexTabOnline(k, c, ok) ==
  /\ \A d \in tabsIndex : d.url # k
  /\ LET lite == LiteEntry(k, now)
         full == [lite EXCEPT !.entities = c.entities, !.topics = c.topics,
                              !.isIndexed = TRUE]
         docs == tabsIndex \cup {full}
         indexedTabs == Filter(getAllTabs(docs),
                               {t \in docs : t.isIndexed /\ t.isActive /\ t.tabId # k})
         others == FirstN(indexedTabs, 20)
         pairs == [i \in 1..Len(others) |-> <<full, others[i]>>]
         rels == CreateContentRelationships(relationships, docs, pairs, now, relSeq)
     IN  IF ok
           THEN /\ tabsIndex' = docs
                /\ relSeq' = relSeq + Cardinality(rels \ relationships)
                /\ relSeq' <= MaxRels
                /\ \E answers \in [Asked(rels, docs) -> SemOutcomes] :
                     Sweep(rels, docs, answers)
           ELSE /\ tabsIndex' = tabsIndex \cup {lite}
                /\ lastSweep' = {}
                /\ UNCHANGED <<relationships, relSeq>>
  /\ UNCHANGED <<now, navigationHistory, suggestVars,
                 indexVars, textVars, eventVars>>

\* handleTabSwitch(request, sender): the user follows a suggestion from tab
\* a (sender.tab.id) to tab b (request.tabId)
HandleTabSwitch(a, b) ==
  /\ a # b
  /\ Len(navigationHistory) < MaxNav
  /\ relSeq < MaxRels
  /\ LET fromTab == getTabByTabId(tabsIndex, a)
         toTab == getTabByTabId(tabsIndex, b)
     IN  IF fromTab # {} /\ toTab # {}
           THEN LET f == CHOOSE d \in fromTab : TRUE
                    t == CHOOSE d \in toTab : TRUE
                IN  /\ navigationHistory' = Append(navigationHistory,
                          [timestamp |-> now,
                           fromTab |-> [tabId |-> f.id, url |-> f.url],
                           toTab |-> [tabId |-> t.id, url |-> t.url]])
                    /\ relationships' = createBasicRelationships(relationships, tabsIndex,
                                            a, b, "navigation", now, relSeq)
                    /\ relSeq' = relSeq + Cardinality(relationships' \ relationships)
           ELSE UNCHANGED <<navigationHistory, relationships, relSeq>>
  /\ lastSweep' = {}
  /\ UNCHANGED <<now, tabsIndex, suggestVars,
                 indexVars, textVars, eventVars>>

\* initializeRelationships(): content relationships between the active
\* indexed documents, then a sweep
InitializeRelationships ==
  /\ LET indexedTabs == Filter(getAllTabs(tabsIndex),
                               {t \in tabsIndex : t.isActive /\ t.isIndexed})
         rels == CreateContentRelationships(relationships, tabsIndex,
                                            PairsOf(indexedTabs), now, relSeq)
     IN  IF Len(indexedTabs) < 2
           THEN lastSweep' = {} /\ UNCHANGED <<relationships, relSeq>>
           ELSE /\ relSeq' = relSeq + Cardinality(rels \ relationships)
                /\ relSeq' <= MaxRels
                /\ \E answers \in [Asked(rels, tabsIndex) -> SemOutcomes] :
                     Sweep(rels, tabsIndex, answers)
  /\ UNCHANGED <<now, tabsIndex, navigationHistory, suggestVars,
                 indexVars, textVars, eventVars>>

\* enrichRelationshipsWithAI() on its own, as finishColdStart calls it
EnrichRelationshipsWithAI ==
  /\ \E answers \in [Asked(relationships, tabsIndex) -> SemOutcomes] :
       Sweep(relationships, tabsIndex, answers)
  /\ UNCHANGED <<now, tabsIndex, relSeq, navigationHistory, suggestVars,
                 indexVars, textVars, eventVars>>

\* applyRelationshipDecay()
ApplyRelationshipDecay ==
  /\ relationships' = applyRelationshipDecay(relationships, now)
  /\ lastSweep' = {}
  /\ UNCHANGED <<now, tabsIndex, relSeq, navigationHistory, suggestVars,
                 indexVars, textVars, eventVars>>

\* time passes
TickRel ==
  /\ now < MaxTicks * tick
  /\ now' = now + tick
  /\ lastSweep' = {}
  /\ UNCHANGED <<tabsIndex, relationships, relSeq, navigationHistory, suggestVars,
                 indexVars, textVars, eventVars>>

NextRel ==
  \/ \E k \in TabIds, c \in Contents : PerformIndexing(k, c)
  \/ \E k \in TabIds, c \in Contents, ok \in BOOLEAN : IndexTabOnline(k, c, ok)
  \/ \E a \in TabIds, b \in TabIds : HandleTabSwitch(a, b)
  \/ InitializeRelationships
  \/ EnrichRelationshipsWithAI
  \/ ApplyRelationshipDecay
  \/ TickRel

SpecRel == InitRel /\ [][NextRel]_vars

(***************************************************************************)
(* Properties of the relationship graph.                                   *)
(***************************************************************************)
\* C6: at most one relationship record is stored for each unordered pair of
\* Tab Documents, whatever calls of createBasicRelationships came before
\* (navigation in either direction, bulk initialization, incremental
\* creation).
C6_OnePerUnorderedPair ==
  \A r1 \in relationships, r2 \in relationships :
    {r1.tab1Id, r1.tab2Id} = {r2.tab1Id, r2.tab2Id} => r1 = r2

\* C7: a handleTabSwitch between two known documents inserts a relationship
\* of strength 0.3 and type "navigation" when the pair has none, and
\* otherwise strengthens the existing one (strength min(s + 0.1, 1), access
\* count + 1, last access now) and inserts nothing.
C7_CreateOrStrengthen ==
  [][\A a \in TabIds, b \in TabIds :
       (/\ HandleTabSwitch(a, b)
        /\ getTabByTabId(tabsIndex, a) # {}
        /\ getTabByTabId(tabsIndex, b) # {})
       => LET A == (CHOOSE d \in getTabByTabId(tabsIndex, a) : TRUE).id
              B == (CHOOSE d \in getTabByTabId(tabsIndex, b) : TRUE).id
              existing == {r \in relationships : {r.tab1Id, r.tab2Id} = {A, B}}
          IN  IF existing = {}
                THEN \E r \in relationships' :
                       /\ relationships' = relationships \cup {r}
                       /\ r \notin relationships
                       /\ {r.tab1Id, r.tab2Id} = {A, B}
                       /\ r.strength = 3000
                       /\ r.type = "navigation"
                ELSE \E e \in existing :
                       relationships' = (relationships \ {e}) \cup
                         {[e EXCEPT !.strength = IF e.strength + 1000 < 10000
                                                   THEN e.strength + 1000 ELSE 10000,
                                    !.accessCount = e.accessCount + 1,
                                    !.lastAccessedAt = now]}]_vars

C9_UnrelatedPruned ==
  \A e \in lastSweep :
    (e.semanticScore < 2000 /\ e.sharedEntities = {} /\ e.sharedTopics = {})
    => \A r \in relationships : r.id # e.id

\* a sweep examined a pair of indexed documents sharing nothing that the
\* Prompt API scored 0.1, and another relationship it kept
C9_Witness ==
  /\ \E e \in lastSweep :
       e.semanticScore = 1000 /\ e.sharedEntities = {} /\ e.sharedTopics = {}
  /\ \E e \in lastSweep : \E r \in relationships : r.id = e.id

\* C10: a decay sweep reduces every relationship last accessed more than a
\* week ago by min(weeks * 0.05, 0.3), deletes it when the reduced strength
\* is below 0.1 and stores the reduced strength otherwise; it leaves every
\* relationship accessed within the week as it is, and stores nothing else.
C10_Decay ==
  [][ApplyRelationshipDecay =>
       /\ \A r \in relationships :
            LET age == now - r.lastAccessedAt
                byWeeks == (age * 5) \div 6048
                reduced == r.strength - (IF byWeeks < 3000 THEN byWeeks ELSE 3000)
            IN  IF age > 604800
                  THEN IF reduced < 1000
                         THEN \A q \in relationships' : q.id # r.id
                         ELSE [r EXCEPT !.strength = reduced] \in relationships'
                  ELSE r \in relationships'
       /\ \A q \in relationships' : \E r \in relationships : r.id = q.id
       /\ Cardinality(relationships') <= Cardinality(relationships)]_vars

\* a decay stored a reduced strength: an unenriched relationship below the
\* strength it was created with, and an enriched one reduced by the cap
C10_Witness ==
  /\ \E r \in relationships : ~r.isAIEnriched /\ r.strength = 1572
  /\ \E r \in relationships : r.isAIEnriched /\ r.strength = 7000
(***************************************************************************)
(* Suggestions: workflows.js, hybrid-scoring.js, lite-mode.js, storage.js  *)
(* and getSuggestionsForTab of background.js.                              *)
(*                                                                         *)
(* A returned list is a sequence of entries: a scored entry is a candidate *)
(* tab with the score the scorer gave it, an unscored entry is a tab as    *)
(* chrome.tabs.query returned it.  A tab's URL is identified with its tab  *)
(* id.                                                                     *)
(***************************************************************************)
Scored(k, score) == [id |-> k, scored |-> TRUE, score |-> score]
Unscored(k) == [id |-> k, scored |-> FALSE, score |-> 0]

Range(s) == {s[i] : i \in DOMAIN s}

\* allTabs.filter(t => t.id !== tabId && !ids.has(t.id)), as unscored entries
OtherTabs(tabs, tabId, ids) ==
  LET kept == Filter(tabs, {k \in Range(tabs) : k # tabId /\ k \notin ids})
  IN  [i \in 1..Len(kept) |-> Unscored(kept[i])]

\* pattern.findIndex(url => url === currentTab.url), counted from 1; 0 for -1
findIndex(pattern, url) ==
  IF \E i \in DOMAIN pattern : pattern[i] = url
    THEN CHOOSE i \in DOMAIN pattern :
           pattern[i] = url /\ \A j \in 1..(i - 1) : pattern[j] # url
    ELSE 0

\* predictNextTab(currentTabId): none, or the Tab Document of the next URL of
\* the most confident workflow through the current URL, with its confidence
predictNextTab(docs, wfs, currentTabId) ==
  LET currentTab == getTabByTabId(docs, currentTabId)
      url == (CHOOSE d \in currentTab : TRUE).url
      matching == {w \in wfs : /\ findIndex(w.pattern, url) # 0
                               /\ findIndex(w.pattern, url) < Len(w.pattern)}
      prediction == CHOOSE w \in matching :
                      \A v \in matching : \/ v.confidence < w.confidence
                                          \/ /\ v.confidence = w.confidence
                                             /\ (w.id = v.id \/ KeyBefore(w.id, v.id))
      nextUrl == prediction.pattern[findIndex(prediction.pattern, url) + 1]
      nextTab == Filter(getAllTabs(docs), {d \in docs : d.url = nextUrl /\ d.isActive})
  IN  IF currentTab = {} \/ wfs = {} \/ matching = {} \/ nextTab = <<>> THEN {}
      ELSE {[tab |-> Head(nextTab), confidence |-> prediction.confidence]}

\* getWorkflowSuggestions(currentTabId): [] when the prediction fails;
\* {...prediction.tab, score: prediction.confidence}, whose id is the id of
\* the Tab Document
getWorkflowSuggestions(docs, wfs, currentTabId, failed) ==
  IF failed THEN <<>>
  ELSE LET prediction == predictNextTab(docs, wfs, currentTabId)
       IN  IF prediction = {} THEN <<>>
           ELSE LET p == CHOOSE q \in prediction : TRUE
                IN  <<[id |-> p.tab.id, tabId |-> p.tab.tabId, score |-> p.confidence]>>

\* workflowPrediction of getSuggestionsForTab: confidence is score || 0.7
workflowPrediction(workflowSuggestions) ==
  IF Len(workflowSuggestions) > 0
    THEN {[tab |-> workflowSuggestions[1],
           confidence |-> IF workflowSuggestions[1].score = 0 THEN 70
                          ELSE workflowSuggestions[1].score]}
    ELSE {}

\* checkIfAnyTabsIndexd(): db.getStats() counts the active indexed
\* documents; false when it fails
checkIfAnyTabsIndexd(docs, failed) ==
  IF failed THEN FALSE ELSE \E d \in docs : d.isActive /\ d.isIndexed

\* The signals of a candidate, each in [0,1] in units of 1/100, as the index,
\* the documents and the history of the moment give them.  A signal whose
\* computation fails is 0 (each is computed under its own try/catch).
SignalProfiles == {"rising", "pairs"}

Signals(profile, k, failed) ==
  LET text == CASE failed -> 0
                [] profile = "rising" -> 5 * k
                [] OTHER -> 10 * (k \div 2)
      overlap == IF ~failed /\ profile = "rising" THEN 50 ELSE 0
  IN  [text |-> text, cosine |-> 0, entities |-> overlap, topics |-> overlap,
       relationship |-> 0, behavioral |-> 0, aiBonus |-> overlap,
       accessFrequency |-> 0, recency |-> 0, temporalProximity |-> 0]

\* calculateHybridScore(...).total
calculateHybridScore(sig) ==
  18 * sig.text + 12 * sig.cosine + 28 * sig.entities + 22 * sig.topics
  + 10 * sig.relationship + 10 * sig.behavioral

\* the score getLiteSuggestions adds up for a candidate
calculateLiteScore(sig) ==
  20 * sig.text + 15 * sig.cosine + 20 * sig.aiBonus + 15 * sig.behavioral
  + 10 * sig.accessFrequency + 8 * sig.recency + 7 * sig.temporalProximity
\* the comparator without its tie-break
compareScoreOnly(a, b) == b.score - a.score

\* the comparator of the three sorts: score descending, then tab id
compare(a, b) ==
  LET scoreDiff == b.score - a.score
  IN  IF scoreDiff # 0 THEN scoreDiff ELSE a.id - b.id

\* Array.prototype.sort with that comparator: a stable sort
RECURSIVE sort(_)
sort(s) ==
  IF s = <<>> THEN <<>>
  ELSE LET x == s[Len(s)]
           front == sort(SubSeq(s, 1, Len(s) - 1))
           after == {i \in DOMAIN front : compare(x, front[i]) < 0}
           at == IF after = {} THEN Len(front) + 1
                 ELSE CHOOSE i \in after : \A j \in after : i <= j
       IN  SubSeq(front, 1, at - 1) \o <<x>> \o SubSeq(front, at, Len(front))

\* candidateTab.id === workflowPrediction.tab.id: a Chrome tab id against
\* the id of the predicted Tab Document
isPredicted(k, prediction) ==
  \E w \in prediction : StrictEq(JsNum(k), w.tab.id)

workflowBonus(k, prediction) ==
  IF isPredicted(k, prediction)
    THEN 30 * (CHOOSE w \in prediction : TRUE).confidence
    ELSE 0

\* getHybridSuggestions(currentTab, allTabs, workflowPrediction)
getHybridSuggestions(tabs, tabId, profile, failed, prediction) ==
  LET otherTabs == Filter(tabs, Range(tabs) \ {tabId})
      scored == [i \in 1..Len(otherTabs) |->
                   Scored(otherTabs[i],
                          calculateHybridScore(Signals(profile, otherTabs[i], failed))
                          + workflowBonus(otherTabs[i], prediction))]
  IN  FirstN(sort(scored), 10)

\* getLiteSuggestions(currentTab, allTabs)
getLiteSuggestions(tabs, tabId, profile, failed) ==
  LET otherTabs == Filter(tabs, Range(tabs) \ {tabId})
      scored == [i \in 1..Len(otherTabs) |->
                   Scored(otherTabs[i],
                          calculateLiteScore(Signals(profile, otherTabs[i], failed)))]
  IN  FirstN(sort(scored), 10)

\* the workflow bonus getSuggestionsForTab adds in lite mode, and its re-sort
addLiteBonus(suggestions, prediction) ==
  IF prediction = {} THEN suggestions
  ELSE sort([i \in DOMAIN suggestions |->
               Scored(suggestions[i].id,
                      suggestions[i].score + workflowBonus(suggestions[i].id, prediction))])

\* getCachedSuggestions with a maximal age of 45 seconds
getCachedSuggestionsLate(cache, tabId, at) ==
  IF cache.cachedSuggestions = <<>> THEN <<>>
  ELSE LET c == cache.cachedSuggestions[1]
       IN  IF c.forTabId # tabId THEN <<>>
           ELSE IF at - c.computedAt > 45 THEN <<>>
           ELSE c.suggestions

\* storage.getCachedSuggestions(tabId): the cached list, <<>> for null
getCachedSuggestions(cache, tabId, at) ==
  IF cache.cachedSuggestions = <<>> THEN <<>>
  ELSE LET c == cache.cachedSuggestions[1]
       IN  IF c.forTabId # tabId THEN <<>>
           ELSE IF at - c.computedAt > 30 THEN <<>>
           ELSE c.suggestions

\* the catch without its filter
FallbackAll(tabs, tabId) == OtherTabs(tabs, 0, {})

\* the catch of getSuggestionsForTab: allTabs.filter(t => t.id !== tabId)
Fallback(tabs, tabId) == OtherTabs(tabs, tabId, {})

\* The steps of a request that can fail.  "cache": a read of
\* chrome.storage.local (getLastTabCount, getCachedSuggestions).  "mode":
\* db.getStats under checkIfAnyTabsIndexd.  "workflow": the prediction.
\* "signal": the signal computations.  "score": a step of the scorer outside
\* the signals' try/catch (db.getTabByTabId in hybrid mode, new URL and
\* isColdStartDone in lite mode).  "save": the write of the cache.
FailSets ==
  {{}, {"cache"}, {"mode"}, {"workflow"}, {"signal"}, {"score"}, {"save"}}

\* getSuggestionsForTab(tabId): the list returned, the hot cache left behind
\* and the path taken.  The cached record carries tabCount, the tab count of
\* the window when the list was cached; the program does not store it and
\* nothing here reads it.
getSuggestionsForTab(tabs, cache, docs, wfs, at, tabId, profile, fail) ==
  LET tabCount == Len(tabs)
      lastKnownCount == cache.lastTabCount
      contextChanged == lastKnownCount # 0 /\ lastKnownCount # tabCount
      cached == IF contextChanged THEN <<>> ELSE getCachedSuggestions(cache, tabId, at)
      cachedIds == {cached[i].id : i \in DOMAIN cached}
      cleared == IF contextChanged THEN [cache EXCEPT !.cachedSuggestions = <<>>] ELSE cache
      counted == [cleared EXCEPT !.lastTabCount = tabCount]
      hasAIData == checkIfAnyTabsIndexd(docs, "mode" \in fail)
      prediction == workflowPrediction(
                      getWorkflowSuggestions(docs, wfs, tabId, "workflow" \in fail))
      suggestions ==
        IF hasAIData
          THEN getHybridSuggestions(tabs, tabId, profile, "signal" \in fail, prediction)
          ELSE addLiteBonus(getLiteSuggestions(tabs, tabId, profile, "signal" \in fail),
                            prediction)
      scoredIds == {suggestions[i].id : i \in DOMAIN suggestions}
  IN  IF tabId \notin Range(tabs)
        THEN [result |-> OtherTabs(tabs, 0, {}), hotCache |-> cache, served |-> "absent"]
      ELSE IF "cache" \in fail
        THEN [result |-> Fallback(tabs, tabId), hotCache |-> cache, served |-> "fallback"]
      ELSE IF Len(cached) > 0
        THEN [result |-> cached \o OtherTabs(tabs, tabId, cachedIds),
              hotCache |-> cache, served |-> "cache"]
      ELSE IF "score" \in fail \/ "save" \in fail
        THEN [result |-> Fallback(tabs, tabId), hotCache |-> counted, served |-> "fallback"]
      ELSE [result |-> suggestions \o OtherTabs(tabs, tabId, scoredIds),
            hotCache |-> [counted EXCEPT !.cachedSuggestions =
                            <<[forTabId |-> tabId, computedAt |-> at,
                               suggestions |-> FirstN(suggestions, 10),
                               tabCount |-> tabCount]>>],
            served |-> "computed"]
(***************************************************************************)
(* Suggestion requests as a state machine: tabs are opened and closed,     *)
(* suggestions are requested, time passes.  A request is one step; req and  *)
(* result hold the last request and its answer until something else        *)
(* happens.  The tab with the largest id is the one opened and closed.     *)
(***************************************************************************)
\* the clock advances in steps of twenty seconds
tickSuggest == 20

\* the Tab Documents of tabs 1..n after cold start, those of indexed indexed
DocsFor(n, indexed) ==
  {[LiteEntry(k, 0) EXCEPT !.isIndexed = k \in indexed] : k \in 1..n}

\* the workflow store: empty, or as detectWorkflows leaves it (a pattern
\* seen three times has confidence 0.3, one seen ten times or more has 1)
WorkflowStores ==
  {{},
   {[id |-> WorkflowId(0, 1), pattern |-> <<1, 2>>, frequency |-> 3,
     lastOccurrence |-> 0, confidence |-> 30],
    [id |-> WorkflowId(0, 2), pattern |-> <<2, 3, 1>>, frequency |-> 10,
     lastOccurrence |-> 0, confidence |-> 100]}}

NoRequest == [tabId |-> 0, profile |-> "none", fail |-> {}, served |-> "none"]

KnownTabs == {d.tabId : d \in tabsIndex}

InitSuggest ==
  /\ now = 0
  /\ \E indexed \in {{}, {1}} : tabsIndex = DocsFor(WindowTabs, indexed)
  /\ relationships = {}
  /\ relSeq = 0
  /\ navigationHistory = <<>>
  /\ lastSweep = {}
  /\ allTabs = [i \in 1..WindowTabs |-> i]
  /\ workflows \in WorkflowStores
  /\ hotCache = [lastTabCount |-> 0, cachedSuggestions |-> <<>>]
  /\ req = NoRequest
  /\ result = <<>>
  /\ IndexingIdle

\* the large window, in the reverse order of the tab ids
InitTop ==
  /\ now = 0
  /\ \E indexed \in {{}, {1}} : tabsIndex = DocsFor(TopTabs, indexed)
  /\ relationships = {}
  /\ relSeq = 0
  /\ navigationHistory = <<>>
  /\ lastSweep = {}
  /\ allTabs = [i \in 1..TopTabs |-> TopTabs + 1 - i]
  /\ workflows \in WorkflowStores
  /\ hotCache = [lastTabCount |-> 0, cachedSuggestions |-> <<>>]
  /\ req = NoRequest
  /\ result = <<>>
  /\ IndexingIdle

\* openTabyModal(tab): getSuggestionsForTab(tab.id), and the list it sends to
\* the page.  The tab may have left the window meanwhile.
Request(tabId, profile, fail) ==
  /\ \E out \in {getSuggestionsForTab(allTabs, hotCache, tabsIndex, workflows, now,
                                        tabId, profile, fail)} :
       /\ result' = out.result
       /\ hotCache' = out.hotCache
       /\ req' = [tabId |-> tabId, profile |-> profile, fail |-> fail,
                  served |-> out.served]
  /\ UNCHANGED <<now, relVars, allTabs, workflows,
                 indexVars, textVars, eventVars>>

\* a tab is opened at some place of the window; its page has a document
\* already, which onUpdated leaves as it is
OpenTab(k, pos) ==
  /\ k \notin Range(allTabs)
  /\ pos \in 0..Len(allTabs)
  /\ allTabs' = SubSeq(allTabs, 1, pos) \o <<k>> \o SubSeq(allTabs, pos + 1, Len(allTabs))
  /\ req' = NoRequest
  /\ result' = <<>>
  /\ UNCHANGED <<now, relVars, workflows, hotCache,
                 indexVars, textVars, eventVars>>

\* a tab is closed: onRemoved marks its document inactive
CloseTab(k) ==
  /\ k \in Range(allTabs)
  /\ allTabs' = Filter(allTabs, Range(allTabs) \ {k})
  /\ tabsIndex' = markInactive(tabsIndex, k)
  /\ req' = NoRequest
  /\ result' = <<>>
  /\ UNCHANGED <<now, relationships, relSeq, navigationHistory, lastSweep,
                 workflows, hotCache,
                 indexVars, textVars, eventVars>>

TickSuggest ==
  /\ now < MaxClock * tickSuggest
  /\ now' = now + tickSuggest
  /\ req' = NoRequest
  /\ result' = <<>>
  /\ UNCHANGED <<relVars, allTabs, workflows, hotCache,
                 indexVars, textVars, eventVars>>

NextSuggest ==
  \/ \E k \in KnownTabs, profile \in SignalProfiles, fail \in FailSets :
       Request(k, profile, fail)
  \/ \E pos \in 0..WindowTabs : OpenTab(WindowTabs, pos)
  \/ CloseTab(WindowTabs)
  \/ TickSuggest

SpecSuggest == InitSuggest /\ [][NextSuggest]_vars

\* in the large window the last tab is closed and opened again at the end,
\* and suggestions are asked for the first tab and for the last
NextTop ==
  \/ \E k \in {1, TopTabs}, profile \in SignalProfiles,
        fail \in {{}, {"signal"}, {"score"}} :
       Request(k, profile, fail)
  \/ OpenTab(TopTabs, Len(allTabs))
  \/ CloseTab(TopTabs)
  \/ TickSuggest

SpecTop == InitTop /\ [][NextTop]_vars
(***************************************************************************)
(* Properties of the suggestions.  req and result are the last request and *)
(* its answer; the window, the stores and the clock are as the request     *)
(* found them, except for the hot cache, which is as the request left it.  *)
(***************************************************************************)
\* C1: a request always returns a list in which every open tab other than
\* the current one appears exactly once and the current one never.  A
\* failure that reaches the handler of getSuggestionsForTab (a storage read,
\* an unguarded step of the scorer, the write of the cache) returns those
\* tabs unranked, in window order.  A failure of mode detection, workflow
\* prediction or the signal computations is absorbed where it occurs: the
\* list is still ranked.
C1_AlwaysAList ==
  req.served # "none" =>
    LET others == Filter(allTabs, Range(allTabs) \ {req.tabId})
        unranked == [i \in 1..Len(others) |-> [id |-> others[i], scored |-> FALSE, score |-> 0]]
        open == req.tabId \in Range(allTabs)
    IN  /\ \A k \in Range(others) : Cardinality({i \in DOMAIN result : result[i].id = k}) = 1
        /\ \A i \in DOMAIN result : result[i].id # req.tabId
        /\ (open /\ "cache" \in req.fail) => result = unranked
        /\ (open /\ req.served # "cache" /\ req.fail \cap {"score", "save"} # {})
             => result = unranked
        /\ (open /\ req.served # "cache" /\ req.fail \cap {"mode", "workflow", "signal"} # {})
             => /\ req.served = "computed"
                /\ \A i \in 1..(IF Len(others) < 10 THEN Len(others) ELSE 10) : result[i].scored

\* mode detection failed and the list is ranked all the same
C1_Witness ==
  /\ req.served = "computed"
  /\ req.fail = {"mode"}
  /\ Len(result) >= 2
  /\ result[1].scored /\ result[1].score > result[2].score

\* C1 as first stated: whenever a step of a request fails (cache lookup,
\* mode detection, workflow prediction, signal computation), the request
\* returns the open tabs other than the current one unranked.
C1_AnyFailureUnranked ==
  (/\ req.served # "none"
   /\ req.tabId \in Range(allTabs)
   /\ \/ "cache" \in req.fail
      \/ req.served # "cache" /\ req.fail \cap {"mode", "workflow", "signal"} # {})
  => LET others == Filter(allTabs, Range(allTabs) \ {req.tabId})
     IN  result = [i \in 1..Len(others) |-> [id |-> others[i], scored |-> FALSE, score |-> 0]]

\* C2: on a cache miss the list is at most 10 scored candidates followed by
\* unscored tabs; the current tab is not in it and every other open tab is
\* in it exactly once, and nothing else is.
C2_TopTenThenRest ==
  req.served \in {"computed", "fallback", "absent"} =>
    /\ \E n \in 0..10 :
         /\ n <= Len(result)
         /\ \A i \in DOMAIN result : result[i].scored <=> i <= n
    /\ \A i \in DOMAIN result : result[i].id # req.tabId /\ result[i].id \in Range(allTabs)
    /\ \A k \in Range(allTabs) \ {req.tabId} :
         Cardinality({i \in DOMAIN result : result[i].id = k}) = 1

\* ten scored candidates and an unscored tab after them
C2_Witness ==
  /\ req.served = "computed"
  /\ Len(result) = 11
  /\ result[10].scored /\ ~result[11].scored

C5_WorkflowBonus ==
  (req.served = "computed" /\ "workflow" \notin req.fail) =>
    LET prediction == predictNextTab(tabsIndex, workflows, req.tabId)
        hybrid == "mode" \notin req.fail /\ \E d \in tabsIndex : d.isActive /\ d.isIndexed
        composed(k) ==
          IF hybrid
            THEN calculateHybridScore(Signals(req.profile, k, "signal" \in req.fail))
            ELSE calculateLiteScore(Signals(req.profile, k, "signal" \in req.fail))
        bonus(k) ==
          IF \E p \in prediction : p.tab.tabId = k
            THEN 30 * (CHOOSE p \in prediction : TRUE).confidence
            ELSE 0
    IN  \A i \in DOMAIN result :
          result[i].scored => result[i].score = composed(result[i].id) + bonus(result[i].id)
(***************************************************************************)
(* workflows.js: mining the navigation log.  A chain is the sequence of    *)
(* the toTab URLs of consecutive navigation events.                        *)
(***************************************************************************)
\* 30 * 24 * 60 * 60 * 1000 ms and 10 * 60 * 1000 ms, in seconds
thirtyDays == 30 * 24 * 60 * 60
tenMinutes == 10 * 60

\* db.getRecentNavigations(since): index('timestamp').getAll(lowerBound(since)).
\* The store is read in timestamp order, the order the log is kept in, and
\* the sort by timestamp that follows is stable.
getRecentNavigations(nav, since) == SelectSeq(nav, LAMBDA e : e.timestamp >= since)

\* within 10 minutes between each step
isContiguous(sequence) ==
  \A j \in 2..Len(sequence) :
    sequence[j].timestamp - sequence[j - 1].timestamp <= tenMinutes

\* sorted.slice(i, i + len) for every i, in the order of the inner loop
Slices(sorted, len) ==
  [i \in 1..(IF Len(sorted) >= len THEN Len(sorted) - len + 1 ELSE 0) |->
     SubSeq(sorted, i, i + len - 1)]

\* the loop over len = minLength..maxLength of extractSequences
RECURSIVE SlicesFrom(_, _, _)
SlicesFrom(sorted, len, maxLength) ==
  IF len > maxLength THEN <<>>
  ELSE Slices(sorted, len) \o SlicesFrom(sorted, len + 1, maxLength)

\* extractSequences(minLength, maxLength), at Date.now() = at
extractSequences(nav, at, minLength, maxLength) ==
  LET navHistory == getRecentNavigations(nav, at - thirtyDays)
      kept == SelectSeq(SlicesFrom(navHistory, minLength, maxLength), isContiguous)
  IN  IF Len(navHistory) < minLength THEN <<>>
      ELSE [i \in DOMAIN kept |->
              [tabs |-> [j \in DOMAIN kept[i] |-> kept[i][j].toTab.url],
               startTime |-> kept[i][1].timestamp,
               endTime |-> kept[i][Len(kept[i])].timestamp]]

\* the keys of sequenceMap, in the order they were inserted
RECURSIVE sequenceKeys(_, _)
sequenceKeys(sequences, seen) ==
  IF sequences = <<>> THEN <<>>
  ELSE IF Head(sequences).tabs \in seen
         THEN sequenceKeys(Tail(sequences), seen)
         ELSE <<Head(sequences).tabs>>
                \o sequenceKeys(Tail(sequences), seen \cup {Head(sequences).tabs})

\* a pattern is kept from two occurrences on
isFrequentFromTwo(frequency) == frequency >= 2

\* data.frequency >= 3
isFrequent(frequency) == frequency >= 3

\* every pattern is fully confident
confidenceOfAlways(frequency) == 100

\* Math.min(data.frequency / 10, 1), in hundredths
confidenceOf(frequency) == Min(frequency * 10, 100)

\* workflows.sort((a, b) => b.frequency - a.frequency): a stable sort
RECURSIVE sortByFrequency(_)
sortByFrequency(s) ==
  IF Len(s) <= 1 THEN s
  ELSE LET last == s[Len(s)]
           front == sortByFrequency(SubSeq(s, 1, Len(s) - 1))
           before == SelectSeq(front, LAMBDA w : w.frequency >= last.frequency)
           after == SelectSeq(front, LAMBDA w : w.frequency < last.frequency)
       IN  before \o <<last>> \o after

\* the patterns detectWorkflows found, in the order it upserts them.  The
\* random parts of the ids of one pass are fresh; they are taken in the
\* order of the upserts or in the opposite order.
detectWorkflows(nav, at, rnd, descending) ==
  LET sequences == extractSequences(nav, at, 2, 5)
      keys == sequenceKeys(sequences, {})
      occurrences(key) == {i \in DOMAIN sequences : sequences[i].tabs = key}
      frequent == SelectSeq(keys, LAMBDA key : isFrequent(Cardinality(occurrences(key))))
      found == sortByFrequency(
                 [i \in DOMAIN frequent |->
                    LET occ == occurrences(frequent[i])
                        latest == CHOOSE o \in occ : \A q \in occ :
                                    sequences[q].startTime <= sequences[o].startTime
                    IN  [pattern |-> frequent[i],
                         frequency |-> Cardinality(occ),
                         lastOccurrence |-> sequences[latest].startTime,
                         confidence |-> confidenceOf(Cardinality(occ))]])
  IN  [i \in DOMAIN found |->
         [id |-> WorkflowId(at, rnd + (IF descending THEN Len(found) + 1 - i ELSE i)),
          pattern |-> found[i].pattern,
          frequency |-> found[i].frequency,
          lastOccurrence |-> found[i].lastOccurrence,
          confidence |-> found[i].confidence]]

\* db.upsertWorkflow(workflowData): store.put on the key path id
upsertWorkflow(wfs, workflowData) ==
  {w \in wfs : ~StrictEq(w.id, workflowData.id)} \cup {workflowData}

\* the loop that saves the patterns of a pass
RECURSIVE upsertAll(_, _)
upsertAll(wfs, found) ==
  IF found = <<>> THEN wfs
  ELSE upsertAll(upsertWorkflow(wfs, Head(found)), Tail(found))

(***************************************************************************)
(* Workflow mining as a state machine.  The log starts as some days of a   *)
(* routine left it: the user followed suggestions through the same pages,  *)
(* five minutes apart, once a day.  Then the user follows more             *)
(* suggestions, mining passes run, predictions are asked, a tab is closed, *)
(* time passes.                                                            *)
(***************************************************************************)
WfTabs == 4          \* tabs of the window the routine runs in
MaxRoutineDays == 4  \* days the routine was followed
MaxWfTicks == 1      \* the clock makes this many five-minute steps
MaxWorkflows == 12   \* pattern records ever stored

fiveMinutes == 5 * 60
oneDay == 24 * 60 * 60
\* Date.now() when the routine is over
WfStart == 5 * oneDay

\* the pages a routine goes to, one suggestion followed for each
Routines == {<<1, 2>>, <<1, 2, 1>>, <<2, 3, 4>>, <<1, 2, 3, 4>>}

\* the navigation the user made on day r of the routine to its j-th page
RoutineEvent(docs, targets, days, r, j) ==
  LET to == targets[j]
      from == IF j > 1 /\ targets[j - 1] # to THEN targets[j - 1] ELSE (to % WfTabs) + 1
      f == CHOOSE d \in getTabByTabId(docs, from) : TRUE
      t == CHOOSE d \in getTabByTabId(docs, to) : TRUE
  IN  [timestamp |-> WfStart - (days - r) * oneDay
                       - (Len(targets) - j + 1) * fiveMinutes,
       fromTab |-> [tabId |-> f.id, url |-> f.url],
       toTab |-> [tabId |-> t.id, url |-> t.url]]

\* the log after days days of a routine
RoutineLog(docs, targets, days) ==
  [n \in 1..(days * Len(targets)) |->
     RoutineEvent(docs, targets, days,
                  ((n - 1) \div Len(targets)) + 1, ((n - 1) % Len(targets)) + 1)]

\* the relationships handleTabSwitch created along a log
RECURSIVE RoutineRelationships(_, _, _)
RoutineRelationships(docs, log, n) ==
  IF n = 0 THEN {}
  ELSE createBasicRelationships(RoutineRelationships(docs, log, n - 1), docs,
                                log[n].fromTab.tabId[2], log[n].toTab.tabId[2],
                                "navigation", log[n].timestamp, n - 1)

InitWf ==
  /\ now = WfStart
  /\ tabsIndex = {LiteEntry(k, 0) : k \in 1..WfTabs}
  /\ \E targets \in Routines, days \in 0..MaxRoutineDays :
       /\ navigationHistory = RoutineLog(tabsIndex, targets, days)
       /\ relationships = RoutineRelationships(tabsIndex, navigationHistory,
                                               Len(navigationHistory))
       /\ relSeq = Len(navigationHistory)
  /\ lastSweep = {}
  /\ allTabs = [i \in 1..WfTabs |-> i]
  /\ workflows = {}
  /\ hotCache = [lastTabCount |-> 0, cachedSuggestions |-> <<>>]
  /\ req = NoRequest
  /\ result = <<>>
  /\ IndexingIdle

\* handleTabSwitch(request, sender) in the window of the routine; two
\* switches are never recorded at one reading of the clock
RecordSwitch(a, b) ==
  /\ a # b
  /\ \A i \in DOMAIN navigationHistory : navigationHistory[i].timestamp < now
  /\ LET fromTab == getTabByTabId(tabsIndex, a)
         toTab == getTabByTabId(tabsIndex, b)
     IN  IF fromTab # {} /\ toTab # {}
           THEN LET f == CHOOSE d \in fromTab : TRUE
                    t == CHOOSE d \in toTab : TRUE
                IN  /\ navigationHistory' = Append(navigationHistory,
                          [timestamp |-> now,
                           fromTab |-> [tabId |-> f.id, url |-> f.url],
                           toTab |-> [tabId |-> t.id, url |-> t.url]])
                    /\ relationships' = createBasicRelationships(relationships, tabsIndex,
                                            a, b, "navigation", now, relSeq)
                    /\ relSeq' = relSeq + Cardinality(relationships' \ relationships)
           ELSE UNCHANGED <<navigationHistory, relationships, relSeq>>
  /\ req' = NoRequest
  /\ result' = <<>>
  /\ UNCHANGED <<now, tabsIndex, lastSweep, allTabs, workflows, hotCache,
                 indexVars, textVars, eventVars>>

\* updateWorkflows(): a mining pass, at the start of the service worker and
\* every six hours; one pass at one reading of the clock
DetectWorkflows(descending) ==
  /\ \A w \in workflows : w.id[2] # now
  /\ workflows' = upsertAll(workflows,
                            detectWorkflows(navigationHistory, now,
                                            Cardinality(workflows), descending))
  /\ Cardinality(workflows') <= MaxWorkflows
  /\ req' = NoRequest
  /\ result' = <<>>
  /\ UNCHANGED <<now, relVars, allTabs, hotCache,
                 indexVars, textVars, eventVars>>

\* predictNextTab(currentTabId); result holds the prediction, if any
PredictNextTab(currentTabId) ==
  /\ LET prediction == predictNextTab(tabsIndex, workflows, currentTabId)
     IN  result' = IF prediction = {} THEN <<>>
                   ELSE <<CHOOSE p \in prediction : TRUE>>
  /\ req' = [NoRequest EXCEPT !.tabId = currentTabId, !.served = "prediction"]
  /\ UNCHANGED <<now, relVars, allTabs, workflows, hotCache,
                 indexVars, textVars, eventVars>>

\* five minutes pass, or a month (once)
TickWf(d) ==
  /\ IF d = thirtyDays THEN now < WfStart + thirtyDays
      ELSE (now - WfStart) % thirtyDays < MaxWfTicks * fiveMinutes
  /\ now' = now + d
  /\ req' = NoRequest
  /\ result' = <<>>
  /\ UNCHANGED <<relVars, allTabs, workflows, hotCache,
                 indexVars, textVars, eventVars>>

\* the user moves between tabs 1 and 2; tab 3 is the one that is closed and
\* opened again
NextWf ==
  \/ \E a \in {1, 2}, b \in {1, 2} : RecordSwitch(a, b)
  \/ \E descending \in BOOLEAN : DetectWorkflows(descending)
  \/ \E k \in 1..WfTabs : PredictNextTab(k)
  \/ CloseTab(3)
  \/ OpenTab(3, Len(allTabs))
  \/ \E d \in {fiveMinutes, thirtyDays} : TickWf(d)

SpecWf == InitWf /\ [][NextWf]_vars
(***************************************************************************)
(* Properties of workflow mining and prediction.                           *)
(***************************************************************************)
\* C11: a mining pass stores a pattern for a URL chain exactly when the chain
\* occurs at least 3 times among the sequences of 2 to 5 consecutive
\* navigation events of the last 30 days whose steps are at most 10 minutes
\* apart; the stored frequency is that number of occurrences.  A chain that
\* occurs twice is not stored by the pass, one that occurs 3 times is.
C11_FrequentChainsStored ==
  [][(\E descending \in BOOLEAN : DetectWorkflows(descending)) =>
       LET nav == navigationHistory
           starts(len) == {i \in 1..Len(nav) :
                             /\ i + len - 1 <= Len(nav)
                             /\ nav[i].timestamp >= now - 2592000
                             /\ \A j \in 1..(len - 1) :
                                  nav[i + j].timestamp - nav[i + j - 1].timestamp <= 600}
           chainAt(i, len) == [j \in 1..len |-> nav[i + j - 1].toTab.url]
           count(chain) == Cardinality({i \in starts(Len(chain)) :
                                          chainAt(i, Len(chain)) = chain})
           chains == UNION {{chainAt(i, len) : i \in starts(len)} : len \in 2..5}
           stored == workflows' \ workflows
       IN  /\ \A w \in stored : /\ w.pattern \in chains
                                /\ count(w.pattern) >= 3
                                /\ w.frequency = count(w.pattern)
           /\ \A chain \in chains :
                count(chain) >= 3 => \E w \in stored : w.pattern = chain
           /\ \A chain \in chains :
                count(chain) = 2 => \A w \in stored : w.pattern # chain]_vars

\* a pass at this reading of the clock stored a chain that occurs 3 times,
\* and a chain that occurs twice in the log has no pattern
C11_Witness ==
  /\ \E w \in workflows : w.id[2] = now /\ w.frequency = 3 /\ w.pattern = <<1, 2>>
  /\ Len(navigationHistory) = 7
  /\ Cardinality({i \in 1..6 : /\ navigationHistory[i].toTab.url = 2
                               /\ navigationHistory[i + 1].toTab.url = 1
                               /\ navigationHistory[i + 1].timestamp
                                    - navigationHistory[i].timestamp <= 600}) = 2
  /\ \A w \in workflows : w.pattern # <<2, 1>>

\* C12: the workflow store holds at most one pattern for each URL chain.
C12_OnePatternPerChain ==
  \A w1 \in workflows, w2 \in workflows : w1.pattern = w2.pattern => w1.id = w2.id

ColdTabs == 2       \* tabs open when the extension is installed
MaxChains == 2      \* processIndexingQueue calls scheduled or waiting for the AI
MaxLate == 1        \* startColdStart calls made while another one is under way
MaxColdTicks == 1   \* readings of the clock after the first

\* what the extraction finds in the pages of this window: no entity, no topic
PlainPage == [entities |-> {}, topics |-> {}]

\* createLiteEntries(tabs): db.addTab for every tab, no lookup before it;
\* store.add fails on a key that exists, and the failure is caught per tab
createLiteEntries(docs, tabs, at) ==
  docs \cup {LiteEntry(tabs[i], at) : i \in {j \in DOMAIN tabs :
                \A d \in docs : ~StrictEq(d.id, DocId(tabs[j], at))}}

\* the end of performIndexing(tab): the document of the tab gets its content
performIndexing(docs, tabId, c) ==
  LET dbEntry == getTabByTabId(docs, tabId)
  IN  {IF d \in dbEntry
         THEN [d EXCEPT !.entities = c.entities, !.topics = c.topics, !.isIndexed = TRUE]
         ELSE d : d \in docs}

Chains == calls.pending + Len(calls.inFlight)

\* s without its first element equal to x
RECURSIVE RemoveOne(_, _)
RemoveOne(s, x) ==
  IF s = <<>> THEN <<>>
  ELSE IF Head(s) = x THEN Tail(s) ELSE <<Head(s)>> \o RemoveOne(Tail(s), x)

\* finishColdStart(): the flag, then initializeRelationships() and
\* enrichRelationshipsWithAI() on the store as it is
FinishColdStart(c) ==
  /\ isIndexing' = FALSE
  /\ calls' = c
  /\ trace' = [trace EXCEPT !.finished = TRUE]
  /\ LET indexedTabs == Filter(getAllTabs(tabsIndex),
                               {t \in tabsIndex : t.isActive /\ t.isIndexed})
         created == IF Len(indexedTabs) < 2 THEN relationships
                    ELSE CreateContentRelationships(relationships, tabsIndex,
                                                    PairsOf(indexedTabs), now, relSeq)
     IN  /\ relSeq' = relSeq + Cardinality(created \ relationships)
         /\ relSeq' <= MaxRels
         /\ \E first \in [Asked(created, tabsIndex) -> SemOutcomes] :
              LET swept == IF Len(indexedTabs) < 2 THEN created
                           ELSE enrichRelationshipsWithAI(created, tabsIndex, first)
              IN  \E answers \in [Asked(swept, tabsIndex) -> SemOutcomes] :
                    Sweep(swept, tabsIndex, answers)
  /\ UNCHANGED <<indexingQueue, currentIndex, tabsIndex>>

\* processIndexingQueue() from `const tab = indexingQueue[currentIndex]` on,
\* up to the AI call.  A tab that was closed, or a page with too little
\* text (~ok), is done with at once: currentIndex++ and the next call is
\* scheduled.
BeginItem(c, ok) ==
  LET tab == indexingQueue[currentIndex + 1]
      t == [trace EXCEPT !.begun = Append(trace.begun, currentIndex)]
  IN  /\ trace' = t
      /\ IF tab \in Range(allTabs) /\ ok
           THEN /\ calls' = [c EXCEPT !.inFlight = Append(c.inFlight, tab)]
                /\ UNCHANGED currentIndex
           ELSE /\ calls' = [c EXCEPT !.pending = c.pending + 1]
                /\ currentIndex' = currentIndex + 1
      /\ UNCHANGED <<indexingQueue, tabsIndex, relationships, relSeq, lastSweep>>

InitCold ==
  /\ now = 0
  /\ tabsIndex = {}
  /\ relationships = {}
  /\ relSeq = 0
  /\ navigationHistory = <<>>
  /\ lastSweep = {}
  /\ allTabs = [i \in 1..ColdTabs |-> i]
  /\ workflows = {}
  /\ hotCache = [lastTabCount |-> 0, cachedSuggestions |-> <<>>]
  /\ req = NoRequest
  /\ result = <<>>
  /\ IndexingIdle

\* startColdStart(), up to its first await: nothing when a pass is running,
\* otherwise the reset; the call then waits for checkAIAvailability and
\* chrome.tabs.query
StartColdStart ==
  /\ IF isIndexing
       THEN UNCHANGED <<indexingQueue, currentIndex, calls, trace>>
       ELSE LET late == calls.fresh + calls.late > 0
            IN  /\ late => calls.late < MaxLate
                /\ indexingQueue' = <<>>
                /\ currentIndex' = 0
                /\ calls' = IF late THEN [calls EXCEPT !.late = calls.late + 1]
                            ELSE [calls EXCEPT !.fresh = calls.fresh + 1]
                /\ trace' = [trace EXCEPT !.paused = FALSE,
                                          !.starts = Min(trace.starts + 1, 2)]
  /\ UNCHANGED <<now, relVars, suggestVars, isIndexing, onlineVars, textVars, eventVars>>

\* startColdStart() of a call that waited, from the tab list on: no AI API
\* (~available) ends it, no tab finishes the pass, otherwise the queue, the
\* flag, the lite entries, and processIndexingQueue() is called
StartSetUp(late, available) ==
  /\ IF late THEN calls.late > 0 ELSE calls.fresh > 0
  /\ Chains < MaxChains
  /\ LET c == IF late THEN [calls EXCEPT !.late = calls.late - 1]
              ELSE [calls EXCEPT !.fresh = calls.fresh - 1]
     IN  IF ~available
           THEN /\ calls' = c
                /\ UNCHANGED <<isIndexing, indexingQueue, currentIndex, trace,
                               tabsIndex, relationships, relSeq, lastSweep>>
           ELSE IF allTabs = <<>>
                  THEN FinishColdStart(c)
                  ELSE /\ indexingQueue' = allTabs
                       /\ currentIndex' = 0
                       /\ isIndexing' = TRUE
                       /\ tabsIndex' = createLiteEntries(tabsIndex, allTabs, now)
                       /\ calls' = [c EXCEPT !.pending = c.pending + 1]
                       /\ trace' = [trace EXCEPT !.begun = <<>>, !.finished = FALSE]
                       /\ UNCHANGED <<relationships, relSeq, lastSweep>>
  /\ UNCHANGED <<now, navigationHistory, suggestVars, onlineVars, textVars, eventVars>>

\* processIndexingQueue(), called by startColdStart or by its own timer
ProcessIndexingQueue(ok) ==
  /\ calls.pending > 0
  /\ LET c == [calls EXCEPT !.pending = calls.pending - 1]
     IN  IF ~isIndexing
           THEN /\ calls' = c
                /\ UNCHANGED <<isIndexing, indexingQueue, currentIndex, trace,
                               tabsIndex, relationships, relSeq, lastSweep>>
           ELSE IF currentIndex >= Len(indexingQueue)
                  THEN FinishColdStart(c)
                  ELSE BeginItem(c, ok) /\ UNCHANGED isIndexing
  /\ UNCHANGED <<now, navigationHistory, suggestVars, onlineVars, textVars, eventVars>>

\* the AI calls for a tab are answered: performIndexing stores the content,
\* then currentIndex++ and the next call is scheduled
IndexingDone(tab) ==
  /\ tab \in Range(calls.inFlight)
  /\ tabsIndex' = performIndexing(tabsIndex, tab, PlainPage)
  /\ currentIndex' = currentIndex + 1
  /\ calls' = [calls EXCEPT !.inFlight = RemoveOne(calls.inFlight, tab),
                            !.pending = calls.pending + 1]
  /\ UNCHANGED <<now, relationships, relSeq, navigationHistory, lastSweep,
                 suggestVars, isIndexing, indexingQueue, trace, onlineVars,
                 textVars, eventVars>>

\* pauseColdStart()
PauseColdStart ==
  /\ isIndexing' = FALSE
  /\ trace' = [trace EXCEPT !.paused = TRUE]
  /\ UNCHANGED <<now, relVars, suggestVars, indexingQueue, currentIndex, calls,
                 onlineVars, textVars, eventVars>>

\* resumeColdStart(): nothing at the end of the queue; otherwise the flag,
\* and processIndexingQueue() runs in the call up to its first await
ResumeColdStart(ok) ==
  /\ Chains < MaxChains
  /\ IF currentIndex >= Len(indexingQueue)
       THEN /\ trace' = [trace EXCEPT !.paused = FALSE]
            /\ UNCHANGED <<isIndexing, indexingQueue, currentIndex, calls,
                           tabsIndex, relationships, relSeq, lastSweep>>
       ELSE /\ isIndexing' = TRUE
            /\ LET t == [trace EXCEPT !.paused = FALSE]
                   tab == indexingQueue[currentIndex + 1]
               IN  /\ trace' = [t EXCEPT !.begun = Append(t.begun, currentIndex)]
                   /\ IF tab \in Range(allTabs) /\ ok
                        THEN /\ calls' = [calls EXCEPT !.inFlight = Append(calls.inFlight, tab)]
                             /\ UNCHANGED currentIndex
                        ELSE /\ calls' = [calls EXCEPT !.pending = calls.pending + 1]
                             /\ currentIndex' = currentIndex + 1
            /\ UNCHANGED <<indexingQueue, tabsIndex, relationships, relSeq, lastSweep>>
  /\ UNCHANGED <<now, navigationHistory, suggestVars, onlineVars, textVars, eventVars>>

\* the clock is read again
TickCold ==
  /\ now < MaxColdTicks
  /\ now' = now + 1
  /\ UNCHANGED <<relVars, suggestVars, indexVars, textVars, eventVars>>

NextCold ==
  \/ StartColdStart
  \/ \E late \in BOOLEAN, available \in BOOLEAN : StartSetUp(late, available)
  \/ \E ok \in BOOLEAN : ProcessIndexingQueue(ok)
  \/ \E tab \in 1..ColdTabs : IndexingDone(tab)
  \/ PauseColdStart
  \/ \E ok \in BOOLEAN : ResumeColdStart(ok)
  \/ CloseTab(ColdTabs)
  \/ TickCold

SpecCold == InitCold /\ [][NextCold]_vars
(***************************************************************************)
(* Properties of the bulk pass.                                            *)
(***************************************************************************)
\* C14: at most one AI summarization or extraction call is outstanding at
\* any time.
C14_OneAICallInFlight == Len(calls.inFlight) <= 1

\* C15: a startColdStart call made while another start is under way or a
\* pass is running has no effect: when it goes on after its wait it leaves
\* the flag, the queue, the position and the documents as they are and
\* calls no processIndexingQueue.
C15_StartIdempotent ==
  [][(\E available \in BOOLEAN : StartSetUp(TRUE, available)) =>
       /\ UNCHANGED <<isIndexing, indexingQueue, currentIndex, tabsIndex>>
       /\ calls'.pending + Len(calls'.inFlight) = calls.pending + Len(calls.inFlight)]_vars

\* C16: while pauseColdStart is the last lifecycle call, with no
\* resumeColdStart and no startColdStart called since, no queue position is
\* taken up.
C16_PauseHoldsTheQueue ==
  [][(trace.paused /\ trace'.paused) => Len(trace'.begun) <= Len(trace.begun)]_vars

\* C17: in a pass started by a single startColdStart, whatever pause and
\* resume calls are made, no queue position is taken up twice, and when the
\* pass is finished every position of its queue was taken up.
C17_EachTabOnce ==
  trace.starts = 1 =>
    /\ \A i \in DOMAIN trace.begun, j \in DOMAIN trace.begun :
         trace.begun[i] = trace.begun[j] => i = j
    /\ trace.finished =>
         \A n \in 0..(Len(indexingQueue) - 1) :
           \E i \in DOMAIN trace.begun : trace.begun[i] = n

\* C18: the store holds at most one Tab Document for a URL, and at most one
\* active Tab Document for a tab id.
C18_OneDocumentPerTabAndUrl ==
  \A d1 \in tabsIndex, d2 \in tabsIndex :
    /\ d1.url = d2.url => d1.id = d2.id
    /\ (d1.tabId = d2.tabId /\ d1.isActive /\ d2.isActive) => d1.id = d2.id
OnlineTabs == 3      \* tabs of the window
MaxQueued == 4       \* items ever queued
MaxOnlineTicks == 1  \* readings of the clock after the first

\* the page a tab shows: the last tab shows the page of the first one
PageOf(tab) == IF tab = OnlineTabs THEN 1 ELSE tab

\* the lite entry indexTabOnline adds for a tab
OnlineEntry(tab, at) == [LiteEntry(tab, at) EXCEPT !.url = PageOf(tab)]

\* db.addTab(tabData): store.add, which fails on a key that exists
addTab(docs, tabData) ==
  IF \E d \in docs : StrictEq(d.id, tabData.id) THEN docs ELSE docs \cup {tabData}

\* db.getTabByUrlHash(urlHash): index('urlHash').get, the first record
getTabByUrlHash(docs, url) ==
  LET hits == {d \in docs : d.url = url}
  IN  {d \in hits : \A e \in hits : e.id = d.id \/ KeyBefore(d.id, e.id)}

\* a comparator that looks at the time of the enqueue only
compareAddedAt(a, b) == a.addedAt - b.addedAt

\* the comparator of queueTabForIndexing: priority first, then addedAt
comparePriority(a, b) ==
  IF a.priority # b.priority THEN b.priority - a.priority
  ELSE a.addedAt - b.addedAt

\* indexingQueue.sort(comparator): a stable sort
RECURSIVE sortQueue(_)
sortQueue(s) ==
  IF Len(s) <= 1 THEN s
  ELSE LET last == s[Len(s)]
           front == sortQueue(SubSeq(s, 1, Len(s) - 1))
           before == SelectSeq(front, LAMBDA x : comparePriority(x, last) <= 0)
           after == SelectSeq(front, LAMBDA x : comparePriority(x, last) > 0)
       IN  before \o <<last>> \o after

\* processQueue() at an item: the shift, and indexTabOnline up to its wait
\* for the page, which adds the lite entry; without a session of the
\* built-in AI indexTabOnline returns before that
TakeNext(q) ==
  /\ isProcessing' = TRUE
  /\ processing' = <<Head(q)>>
  /\ onlineQueue' = Tail(q)
  /\ onlineTrace' = Append(onlineTrace, Head(q))
  /\ tabsIndex' = IF aiAvailable THEN addTab(tabsIndex, OnlineEntry(Head(q).tab, now))
                  ELSE tabsIndex

\* queueTabForIndexing(tab, priority)
Enqueue(tab, priority) ==
  LET queueItem == [tab |-> tab,
                    priority |-> IF priority = "high" THEN 1 ELSE 0,
                    addedAt |-> now,
                    n |-> Len(onlineTrace) + Len(onlineQueue) + 1]
      q == sortQueue(Append(onlineQueue, queueItem))
  IN  IF \E i \in DOMAIN onlineQueue : onlineQueue[i].tab = tab
        THEN UNCHANGED <<onlineVars, tabsIndex>>
        ELSE /\ queueItem.n <= MaxQueued
             /\ IF isProcessing
                  THEN /\ onlineQueue' = q
                       /\ UNCHANGED <<isProcessing, processing, onlineTrace, tabsIndex>>
                  ELSE TakeNext(q)

InitOnline ==
  /\ now = 0
  /\ tabsIndex = {}
  /\ relationships = {}
  /\ relSeq = 0
  /\ navigationHistory = <<>>
  /\ lastSweep = {}
  /\ allTabs = [i \in 1..OnlineTabs |-> i]
  /\ workflows = {}
  /\ hotCache = [lastTabCount |-> 0, cachedSuggestions |-> <<>>]
  /\ req = NoRequest
  /\ result = <<>>
  /\ IndexingIdle

\* the onUpdated listener for a page that finished loading in a tab: a page
\* the store knows gets the tab's id, a new page is queued
OnUpdated(tabId) ==
  /\ LET existingTab == getTabByUrlHash(tabsIndex, PageOf(tabId))
     IN  IF existingTab = {}
           THEN Enqueue(tabId, "normal")
           ELSE /\ tabsIndex' = {IF d \in existingTab THEN [d EXCEPT !.tabId = tabId]
                                 ELSE d : d \in tabsIndex}
                /\ UNCHANGED onlineVars
  /\ UNCHANGED <<now, relationships, relSeq, navigationHistory, lastSweep,
                 suggestVars, coldVars, textVars, eventVars>>

\* queueTabForIndexing(tab, priority) called for a tab
QueueTabForIndexing(tab, priority) ==
  /\ Enqueue(tab, priority)
  /\ UNCHANGED <<now, relationships, relSeq, navigationHistory, lastSweep,
                 suggestVars, coldVars, textVars, eventVars>>

\* indexTabOnline(tab) ends: with enough text (ok) the document of the tab
\* gets its content, the content relationships are created and a sweep
\* runs; then processQueue waits 500 ms
IndexTabOnlineDone(ok) ==
  /\ processing # <<>>
  /\ processing' = <<>>
  /\ LET tab == processing[1].tab
         docs == performIndexing(tabsIndex, tab, PlainPage)
         currentTab == getTabByTabId(docs, tab)
         indexedTabs == Filter(getAllTabs(docs),
                               {t \in docs : t.isIndexed /\ t.isActive /\ t.tabId # tab})
         others == FirstN(indexedTabs, 20)
         pairs == [i \in 1..Len(others) |-> <<CHOOSE d \in currentTab : TRUE, others[i]>>]
         rels == CreateContentRelationships(relationships, docs, pairs, now, relSeq)
     IN  IF aiAvailable /\ ok /\ currentTab # {}
           THEN /\ tabsIndex' = docs
                /\ relSeq' = relSeq + Cardinality(rels \ relationships)
                /\ relSeq' <= MaxRels
                /\ \E answers \in [Asked(rels, docs) -> SemOutcomes] :
                     Sweep(rels, docs, answers)
           ELSE UNCHANGED <<tabsIndex, relationships, relSeq, lastSweep>>
  /\ UNCHANGED <<now, navigationHistory, suggestVars, coldVars, textVars, eventVars,
                 onlineQueue, isProcessing, onlineTrace>>

\* a processQueue whose loop ends after its pause whatever is waiting
ProcessQueueLeaves ==
  /\ isProcessing
  /\ processing = <<>>
  /\ isProcessing' = FALSE
  /\ UNCHANGED <<onlineQueue, processing, onlineTrace, tabsIndex>>
  /\ UNCHANGED <<now, relationships, relSeq, navigationHistory, lastSweep,
                 suggestVars, coldVars, textVars, eventVars>>

\* processQueue() after its pause: the next item, or the end of the loop
ProcessQueueNext ==
  /\ isProcessing
  /\ processing = <<>>
  /\ IF onlineQueue = <<>>
       THEN /\ isProcessing' = FALSE
            /\ UNCHANGED <<onlineQueue, processing, onlineTrace, tabsIndex>>
       ELSE TakeNext(onlineQueue)
  /\ UNCHANGED <<now, relationships, relSeq, navigationHistory, lastSweep,
                 suggestVars, coldVars, textVars, eventVars>>

\* the clock is read again
TickOnline ==
  /\ now < MaxOnlineTicks
  /\ now' = now + 1
  /\ UNCHANGED <<relVars, suggestVars, indexVars, textVars, eventVars>>

NextOnline ==
  \/ \E tabId \in 1..OnlineTabs : OnUpdated(tabId)
  \/ \E tab \in 1..OnlineTabs : QueueTabForIndexing(tab, "high")
  \/ \E ok \in BOOLEAN : IndexTabOnlineDone(ok)
  \/ ProcessQueueNext
  \/ TickOnline

SpecOnline == InitOnline /\ [][NextOnline]_vars

(***************************************************************************)
(* Properties of the incremental queue.                                    *)
(***************************************************************************)
\* C20: the incremental queue has at most one item in work at any time, and
\* whenever it takes an item, every item left waiting has a lower priority,
\* or the same priority and a later enqueue.
C20_QueueOrder ==
  /\ [](Len(processing) <= 1)
  /\ [][Len(onlineTrace') > Len(onlineTrace) =>
          LET x == onlineTrace'[Len(onlineTrace')]
          IN  \A i \in DOMAIN onlineQueue' :
                \/ x.priority > onlineQueue'[i].priority
                \/ /\ x.priority = onlineQueue'[i].priority
                   /\ x.n < onlineQueue'[i].n]_vars

\* a high-priority tab was taken before a normal one that was queued
\* earlier, and two normal ones were taken in the order they were queued
C20_Witness ==
  /\ \E i \in DOMAIN onlineTrace, j \in DOMAIN onlineTrace :
       /\ i < j
       /\ onlineTrace[i].priority = 1 /\ onlineTrace[j].priority = 0
       /\ onlineTrace[i].n > onlineTrace[j].n
  /\ \E i \in DOMAIN onlineTrace, j \in DOMAIN onlineTrace :
       /\ i < j
       /\ onlineTrace[i].priority = 0 /\ onlineTrace[j].priority = 0
       /\ onlineTrace[i].n < onlineTrace[j].n

(***************************************************************************)
(* tfidf.js: class TFIDF.  A text is a sequence of words separated by      *)
(* blanks; a term is a sequence of tokens, one token for a word and two or *)
(* three for an n-gram, which the program joins with '_'.  An instance is  *)
(* a record of the five fields of the class.                               *)
(***************************************************************************)
\* Map.has, Map.get with a value for a missing key, Map.set, Map.delete
MapHas(m, k) == \E i \in DOMAIN m : m[i].key = k
MapGet(m, k, missing) ==
  IF MapHas(m, k) THEN m[CHOOSE i \in DOMAIN m : m[i].key = k].value ELSE missing
MapSet(m, k, v) ==
  IF MapHas(m, k)
    THEN [i \in DOMAIN m |-> IF m[i].key = k THEN [key |-> k, value |-> v] ELSE m[i]]
    ELSE Append(m, [key |-> k, value |-> v])
MapDelete(m, k) == SelectSeq(m, LAMBDA e : e.key # k)
MapKeys(m) == {m[i].key : i \in DOMAIN m}

\* the words of the pages
LongWord == "pneumonoultramicroscopicsilicovolcanoconiosis"
Words == {"tab", "doc", "web", "Tab", "of", "2024",
          "apple", "banana", "cherry", "date", "egg", LongWord}
toLowerCase(word) == IF word = "Tab" THEN "tab" ELSE word
wordLength(word) ==
  CASE word = "of" -> 2
    [] word \in {"2024", "date"} -> 4
    [] word = "apple" -> 5
    [] word \in {"banana", "cherry"} -> 6
    [] word = LongWord -> 45
    [] OTHER -> 3
onlyDigits(word) == word = "2024"

\* tokenize(text): lower case, then the words longer than 2 that are not
\* numbers
tokenize(text) ==
  LET lower == [i \in DOMAIN text |-> toLowerCase(text[i])]
      kept == SelectSeq(lower, LAMBDA word : wordLength(word) > 2 /\ ~onlyDigits(word))
  IN  [i \in DOMAIN kept |-> <<kept[i]>>]

\* the length of a term as a string
termLength(term) ==
  IF Len(term) = 1 THEN wordLength(term[1])
  ELSE IF Len(term) = 2 THEN wordLength(term[1]) + 1 + wordLength(term[2])
  ELSE wordLength(term[1]) + 1 + wordLength(term[2]) + 1 + wordLength(term[3])

\* a stop-word test that decides on a corpus of any size
isStopWordAnyCorpus(x, term) ==
  MapGet(x.documentFreq, term, 0) * 10 > Len(x.documents) * 4

\* a stop-word test that takes 40% of the documents as enough
isStopWordFromForty(x, term) ==
  LET numDocs == Len(x.documents)
      df == MapGet(x.documentFreq, term, 0)
  IN  IF numDocs < 3 THEN FALSE ELSE df * 10 >= numDocs * 4

\* isStopWord(term): in more than 40% of at least three documents
isStopWord(x, term) ==
  LET numDocs == Len(x.documents)
      df == MapGet(x.documentFreq, term, 0)
  IN  IF numDocs < 3 THEN FALSE ELSE df * 10 > numDocs * 4

\* filterTerms(terms)
filterTerms(x, terms) ==
  LET numDocs == Len(x.documents)
  IN  SelectSeq(terms, LAMBDA term :
        /\ ~(termLength(term) < 3 \/ termLength(term) > 30)
        /\ ~isStopWord(x, term)
        /\ ~(numDocs > 10 /\ MapGet(x.documentFreq, term, 0) = 1))

\* extractNGrams(tokens, n)
extractNGrams(tokens, n) ==
  IF Len(tokens) < n THEN <<>>
  ELSE [i \in 1..(Len(tokens) - n + 1) |->
          IF n = 2 THEN tokens[i] \o tokens[i + 1]
          ELSE tokens[i] \o tokens[i + 1] \o tokens[i + 2]]

\* terms.forEach(term => map.set(term, (map.get(term) || 0) + 1))
RECURSIVE countTerms(_, _)
countTerms(map, terms) ==
  IF terms = <<>> THEN map
  ELSE countTerms(MapSet(map, Head(terms), MapGet(map, Head(terms), 0) + 1), Tail(terms))

\* new Set(terms), in the order of the first occurrences
RECURSIVE uniqueOf(_, _)
uniqueOf(terms, seen) ==
  IF terms = <<>> THEN <<>>
  ELSE IF Head(terms) \in seen THEN uniqueOf(Tail(terms), seen)
  ELSE <<Head(terms)>> \o uniqueOf(Tail(terms), seen \cup {Head(terms)})

\* addDocument(text, id, metadata)
addDocument(x, text, id, metadata) ==
  LET tokens == tokenize(text)
      counted == [x EXCEPT !.globalTermFreq = countTerms(x.globalTermFreq, tokens),
                           !.totalTermCount = x.totalTermCount + Len(tokens)]
      filteredTokens == filterTerms(counted, tokens)
      allTerms == filteredTokens \o extractNGrams(filteredTokens, 2)
                                 \o extractNGrams(filteredTokens, 3)
      termFreq == countTerms(<<>>, allTerms)
      uniqueTerms == uniqueOf(allTerms, {})
  IN  [counted EXCEPT
         !.documentFreq = countTerms(x.documentFreq, uniqueTerms),
         !.termFreqs = Append(x.termFreqs,
                              [id |-> id, termFreq |-> termFreq, terms |-> allTerms,
                               uniqueTerms |-> Len(uniqueTerms),
                               totalTerms |-> Len(allTerms), metadata |-> metadata]),
         !.documents = Append(x.documents,
                              [id |-> id, text |-> text, metadata |-> metadata])]

\* a loop that deletes the count of every term of the document
forgetAlways(map, terms) == SelectSeq(map, LAMBDA e : e.key \notin Range(terms))

\* the loop of removeDocument: a count of 1 or less is deleted, another one
\* is lowered by one; the count of a term the map does not have is
\* undefined, and the map gets NaN for it, written -1 here
RECURSIVE forgetTerms(_, _)
forgetTerms(map, terms) ==
  IF terms = <<>> THEN map
  ELSE LET term == Head(terms)
           freq == MapGet(map, term, -1)
       IN  forgetTerms(IF freq = -1 THEN MapSet(map, term, -1)
                       ELSE IF freq <= 1 THEN MapDelete(map, term)
                       ELSE MapSet(map, term, freq - 1), Tail(terms))

\* removeDocument(id): the first document with this id
removeDocument(x, id) ==
  IF ~\E i \in DOMAIN x.documents : x.documents[i].id = id THEN x
  ELSE LET index == CHOOSE i \in DOMAIN x.documents :
                      /\ x.documents[i].id = id
                      /\ \A j \in 1..(i - 1) : x.documents[j].id # id
           doc == x.termFreqs[index]
           splice(s) == SubSeq(s, 1, index - 1) \o SubSeq(s, index + 1, Len(s))
       IN  [x EXCEPT !.documentFreq = forgetTerms(x.documentFreq, uniqueOf(doc.terms, {})),
                     !.documents = splice(x.documents),
                     !.termFreqs = splice(x.termFreqs)]

\* Math.log(num / den) in 1/10000, as 2 * atanh((num - den) / (num + den))
\* with the first ten terms of the series
RECURSIVE atanhSeries(_, _, _)
atanhSeries(power, z, k) ==
  IF k >= 10 THEN 0
  ELSE power \div (2 * k + 1)
       + atanhSeries((((power * z) \div 10000) * z) \div 10000, z, k + 1)
Ln(num, den) ==
  IF num >= den
    THEN 2 * atanhSeries(((num - den) * 10000) \div (num + den),
                         ((num - den) * 10000) \div (num + den), 0)
    ELSE 0 - 2 * atanhSeries(((den - num) * 10000) \div (num + den),
                             ((den - num) * 10000) \div (num + den), 0)

\* Math.sqrt, rounded down
RECURSIVE sqrtBetween(_, _, _)
sqrtBetween(n, low, high) ==
  IF low >= high THEN low
  ELSE LET mid == (low + high + 1) \div 2
       IN  IF mid * mid <= n THEN sqrtBetween(n, mid, high)
           ELSE sqrtBetween(n, low, mid - 1)
Sqrt(n) == sqrtBetween(n, 0, 46340)

RECURSIVE SumSeq(_)
SumSeq(s) == IF s = <<>> THEN 0 ELSE Head(s) + SumSeq(Tail(s))

\* termFreqs.find(d => d.id === documentId)
findDoc(x, documentId) ==
  LET hits == {i \in DOMAIN x.termFreqs : x.termFreqs[i].id = documentId}
  IN  {x.termFreqs[i] : i \in {h \in hits : \A g \in hits : h <= g}}

\* the idf of the classic formula, without the + 1
idfPlain(numDocs, df) == Ln(2 * (numDocs - df) + 1, 2 * df + 1)

\* idf of bm25: Math.log((numDocs - df + 0.5) / (df + 0.5) + 1), in 1/10000
idf(numDocs, df) == Ln(2 * numDocs + 2, 2 * df + 1)

\* bm25(queryText, documentId) with k1 = 1.5 and b = 0.75, in 1/10000; the
\* fraction is multiplied through by 8 * the sum of the document lengths
bm25(x, queryText, documentId) ==
  LET filteredQuery == filterTerms(x, tokenize(queryText))
      found == findDoc(x, documentId)
      numDocs == Len(x.documents)
      lengths == SumSeq([i \in DOMAIN x.termFreqs |-> x.termFreqs[i].totalTerms])
  IN  IF found = {} THEN 0
      ELSE IF numDocs = 0 THEN 0
      ELSE LET doc == CHOOSE d \in found : TRUE
               part(term) ==
                 LET termFreqInDoc == MapGet(doc.termFreq, term, 0)
                     df == MapGet(x.documentFreq, term, 1)
                     numerator == 20 * termFreqInDoc * lengths
                     denominator == 8 * termFreqInDoc * lengths + 3 * lengths
                                    + 9 * doc.totalTerms * numDocs
                 IN  IF termFreqInDoc = 0 THEN 0
                     ELSE (idf(numDocs, IF df <= 0 THEN 1 ELSE df) * numerator)
                          \div denominator
           IN  SumSeq([i \in DOMAIN filteredQuery |-> part(filteredQuery[i])])

\* cosineSimilarity(doc1Id, doc2Id) in 1/1000, the idf Math.log(numDocs / df)
\* in 1/100; the lengths of the two documents cancel
cosineSimilarity(x, doc1Id, doc2Id) ==
  LET found1 == findDoc(x, doc1Id)
      found2 == findDoc(x, doc2Id)
  IN  IF found1 = {} \/ found2 = {} THEN 0
      ELSE LET doc1 == CHOOSE d \in found1 : TRUE
               doc2 == CHOOSE d \in found2 : TRUE
               allTerms == uniqueOf([i \in DOMAIN doc1.termFreq |-> doc1.termFreq[i].key]
                                    \o [i \in DOMAIN doc2.termFreq |-> doc2.termFreq[i].key], {})
               numDocs == Len(x.documents)
               weight(doc, term) ==
                 LET df == MapGet(x.documentFreq, term, 1)
                 IN  MapGet(doc.termFreq, term, 0)
                     * (Ln(numDocs, IF df <= 0 THEN 1 ELSE df) \div 100)
               dotProduct == SumSeq([i \in DOMAIN allTerms |->
                                       weight(doc1, allTerms[i]) * weight(doc2, allTerms[i])])
               mag1 == SumSeq([i \in DOMAIN allTerms |->
                                 weight(doc1, allTerms[i]) * weight(doc1, allTerms[i])])
               mag2 == SumSeq([i \in DOMAIN allTerms |->
                                 weight(doc2, allTerms[i]) * weight(doc2, allTerms[i])])
           IN  IF mag1 = 0 \/ mag2 = 0 THEN 0
               ELSE (dotProduct * 1000) \div (Sqrt(mag1) * Sqrt(mag2))

\* Array.from(map): the [key, value] pairs
ArrayFrom(map) == [i \in DOMAIN map |-> <<map[i].key, map[i].value>>]

\* new Map(pairs): the pairs are set one after the other
RECURSIVE MapOf(_, _)
MapOf(map, pairs) ==
  IF pairs = <<>> THEN map
  ELSE MapOf(MapSet(map, Head(pairs)[1], Head(pairs)[2]), Tail(pairs))

\* serialize(): the JSON text, written as the value JSON.parse gives for it
serialize(x) ==
  [documents |-> x.documents,
   documentFreq |-> ArrayFrom(x.documentFreq),
   globalTermFreq |-> ArrayFrom(x.globalTermFreq),
   totalTermCount |-> x.totalTermCount,
   termFreqs |-> [i \in DOMAIN x.termFreqs |->
                    [x.termFreqs[i] EXCEPT !.termFreq = ArrayFrom(x.termFreqs[i].termFreq)]]]

\* a deserialize that counts every term of the document frequencies once
deserializeRecounted(data) ==
  [documents |-> data.documents,
   documentFreq |-> countTerms(<<>>, [i \in DOMAIN data.documentFreq |->
                                        data.documentFreq[i][1]]),
   globalTermFreq |-> MapOf(<<>>, data.globalTermFreq),
   totalTermCount |-> data.totalTermCount,
   termFreqs |-> [i \in DOMAIN data.termFreqs |->
                    [data.termFreqs[i] EXCEPT
                       !.termFreq = MapOf(<<>>, data.termFreqs[i].termFreq)]]]

\* TFIDF.deserialize(data)
deserialize(data) ==
  [documents |-> data.documents,
   documentFreq |-> MapOf(<<>>, data.documentFreq),
   globalTermFreq |-> MapOf(<<>>, data.globalTermFreq),
   totalTermCount |-> data.totalTermCount,
   termFreqs |-> [i \in DOMAIN data.termFreqs |->
                    [data.termFreqs[i] EXCEPT
                       !.termFreq = MapOf(<<>>, data.termFreqs[i].termFreq)]]]

(***************************************************************************)
(* The Text Index as a machine: one instance, documents are added and      *)
(* removed, the instance is written out and read back, and scores are      *)
(* asked.  textLog has the step: its inputs, the instance before it (for   *)
(* a remove that follows the add of the same id, the instance before that  *)
(* add), the score it returned and the number of adds so far.              *)
(***************************************************************************)
MaxDocs == 4     \* documents in the instance at a time
MaxAdds == 4     \* adds in all
MaxDocIds == 3   \* ids of documents

Texts == {<<"Tab", "doc", "of">>, <<"tab", "doc", "web">>, <<"web", "2024", "web">>}

InitTfidf ==
  /\ now = 0
  /\ tabsIndex = {}
  /\ relationships = {}
  /\ relSeq = 0
  /\ navigationHistory = <<>>
  /\ lastSweep = {}
  /\ allTabs = <<>>
  /\ workflows = {}
  /\ hotCache = [lastTabCount |-> 0, cachedSuggestions |-> <<>>]
  /\ req = NoRequest
  /\ result = <<>>
  /\ IndexingIdle

AddDocument(text, id) ==
  /\ Len(tfidf.documents) < MaxDocs
  /\ textLog.adds < MaxAdds
  /\ tfidf' = addDocument(tfidf, text, id, <<>>)
  /\ textLog' = [textLog EXCEPT !.op = "add", !.id = id, !.text = text,
                                !.before = tfidf, !.score = 0,
                                !.adds = textLog.adds + 1]
  /\ UNCHANGED <<now, relVars, suggestVars, indexVars, tfidfIndex, updaters, eventVars>>

RemoveDocument(id) ==
  /\ tfidf' = removeDocument(tfidf, id)
  /\ textLog' = IF textLog.op = "add" /\ textLog.id = id
                  THEN [textLog EXCEPT !.op = "addRemove"]
                  ELSE [textLog EXCEPT !.op = "remove", !.id = id, !.text = <<>>,
                                       !.before = tfidf, !.score = 0]
  /\ UNCHANGED <<now, relVars, suggestVars, indexVars, tfidfIndex, updaters, eventVars>>

\* the instance is serialized and a new instance is made of the text
SaveAndLoad ==
  /\ tfidf' = deserialize(serialize(tfidf))
  /\ textLog' = [textLog EXCEPT !.op = "load", !.id = 0, !.text = <<>>,
                                !.before = tfidf, !.score = 0]
  /\ UNCHANGED <<now, relVars, suggestVars, indexVars, tfidfIndex, updaters, eventVars>>

\* tfidf.bm25(queryText, documentId) is asked
Bm25(queryText, documentId) ==
  /\ textLog' = [textLog EXCEPT !.op = "bm25", !.id = documentId, !.text = queryText,
                                !.before = tfidf, !.score = bm25(tfidf, queryText, documentId)]
  /\ UNCHANGED <<now, relVars, suggestVars, indexVars, tfidf, tfidfIndex, updaters,
                 eventVars>>

NextTfidf ==
  \/ \E text \in Texts, id \in 1..MaxDocIds : AddDocument(text, id)
  \/ \E id \in 1..MaxDocIds : RemoveDocument(id)
  \/ SaveAndLoad
  \/ \E queryText \in Texts, documentId \in 1..MaxDocIds : Bm25(queryText, documentId)

SpecTfidf == InitTfidf /\ [][NextTfidf]_vars

(***************************************************************************)
(* Properties of the Text Index.                                           *)
(***************************************************************************)
\* the number of documents of an instance whose term-frequency map has a term
DocsWith(x, term) ==
  Cardinality({i \in DOMAIN x.termFreqs : MapHas(x.termFreqs[i].termFreq, term)})

\* the document-frequency map is exact: one entry for a term, never a count
\* of 0, and the count of every term is the number of documents with it
DocumentFreqExact(x) ==
  /\ \A i, j \in DOMAIN x.documentFreq :
       x.documentFreq[i].key = x.documentFreq[j].key => i = j
  /\ \A i \in DOMAIN x.documentFreq : x.documentFreq[i].value >= 1
  /\ \A i \in DOMAIN x.termFreqs : \A term \in MapKeys(x.termFreqs[i].termFreq) :
       MapHas(x.documentFreq, term)
  /\ \A i \in DOMAIN x.documentFreq :
       x.documentFreq[i].value = DocsWith(x, x.documentFreq[i].key)

C23_RoundTrip ==
  textLog.op = "load" =>
    /\ tfidf.documents = textLog.before.documents
    /\ tfidf.documentFreq = textLog.before.documentFreq
    /\ tfidf.globalTermFreq = textLog.before.globalTermFreq
    /\ tfidf.totalTermCount = textLog.before.totalTermCount
    /\ tfidf.termFreqs = textLog.before.termFreqs
    /\ \A queryText \in Texts, id \in 1..MaxDocIds :
         bm25(tfidf, queryText, id) = bm25(textLog.before, queryText, id)
    /\ \A id1 \in 1..MaxDocIds, id2 \in 1..MaxDocIds :
         cosineSimilarity(tfidf, id1, id2) = cosineSimilarity(textLog.before, id1, id2)

\* an instance with a removed document and three left was written and read,
\* a term is in two documents, and a bm25 and a cosine of it are above 0
C23_Witness ==
  /\ textLog.op = "load"
  /\ Len(tfidf.documents) = 3
  /\ textLog.adds = 4
  /\ \E i \in DOMAIN tfidf.documentFreq : tfidf.documentFreq[i].value = 2
  /\ \E queryText \in Texts, id \in 1..MaxDocIds : bm25(tfidf, queryText, id) > 0
  /\ \E id1 \in 1..MaxDocIds, id2 \in 1..MaxDocIds :
       id1 # id2 /\ cosineSimilarity(tfidf, id1, id2) > 0

\* the query terms that pass filterTerms and are in the term-frequency map
\* of the document
SharedTerms(x, queryText, documentId) ==
  {term \in Range(filterTerms(x, tokenize(queryText))) :
     \E doc \in findDoc(x, documentId) : MapHas(doc.termFreq, term)}

\* C24: bm25 never returns less than 0, and it returns 0 for an id the
\* instance does not have, for an instance without documents, and when no
\* query term that passes filterTerms is in the document's term-frequency
\* map.
C24_Bm25NotNegative ==
  textLog.op = "bm25" =>
    /\ textLog.score >= 0
    /\ (\/ findDoc(tfidf, textLog.id) = {}
        \/ tfidf.documents = <<>>
        \/ SharedTerms(tfidf, textLog.text, textLog.id) = {}) => textLog.score = 0

\* bm25 gave 0 for a document that has a token of the query, which
\* filterTerms dropped as a stop word
C24_Witness ==
  /\ textLog.op = "bm25"
  /\ textLog.score = 0
  /\ findDoc(tfidf, textLog.id) # {}
  /\ \E term \in Range(tokenize(textLog.text)) :
       /\ isStopWord(tfidf, term)
       /\ \E doc \in findDoc(tfidf, textLog.id) : MapHas(doc.termFreq, term)

(***************************************************************************)
(* The persisted Text Index and its updates.  updateTFIDFWithAIData of the *)
(* bulk pass and updateTFIDFIndex of the incremental pass are the same     *)
(* four steps: the index is read from storage, the entry of the tab is     *)
(* removed, the enriched entry is added, the index is written.  The read   *)
(* and the write are awaited, so an update is two steps: at the first the  *)
(* storage answers the read, at the second it takes the write.  Each pass  *)
(* has one update under way at most.  textLog.updated has the tabs whose   *)
(* update was written, textLog.text the text of the last one.              *)
(***************************************************************************)
BulkTabs == 2      \* tabs of the bulk pass
NewTabs == 1       \* tabs that are opened later, for the incremental pass
MaxUpdates == 3    \* updates in all

TitleOf(tabId) == IF tabId % 2 = 1 THEN "tab" ELSE "web"
Summaries == {"doc", "Tab"}

\* `${title} ${title} ${title}`
titleRepeated(tabId) == <<TitleOf(tabId), TitleOf(tabId), TitleOf(tabId)>>

\* `${titleRepeated} ${summary} ${keywords.join(' ')}`
enrichedText(tabId, summary) == titleRepeated(tabId) \o <<summary>> \o <<"2024">>

\* buildTFIDFIndex(tabs) for pages without text
RECURSIVE addTitles(_, _)
addTitles(x, tabs) ==
  IF tabs = <<>> THEN x
  ELSE addTitles(addDocument(x, titleRepeated(Head(tabs)), Head(tabs), <<>>), Tail(tabs))
buildTFIDFIndex(tabs) == serialize(addTitles(NewTFIDF, tabs))

\* lines 493 to 504 of cold-start.js and 187 to 197 of online-indexing.js:
\* what is written for what was read
updatedIndex(indexData, tabId, text) ==
  serialize(addDocument(removeDocument(deserialize(indexData), tabId), text, tabId, <<>>))

InitText ==
  /\ now = 0
  /\ tabsIndex = {}
  /\ relationships = {}
  /\ relSeq = 0
  /\ navigationHistory = <<>>
  /\ lastSweep = {}
  /\ allTabs = [i \in 1..BulkTabs |-> i]
  /\ workflows = {}
  /\ hotCache = [lastTabCount |-> 0, cachedSuggestions |-> <<>>]
  /\ req = NoRequest
  /\ result = <<>>
  /\ isIndexing = FALSE
  /\ indexingQueue = <<>>
  /\ currentIndex = 0
  /\ calls = NoCalls
  /\ trace = NoTrace
  /\ onlineQueue = <<>>
  /\ isProcessing = FALSE
  /\ processing = <<>>
  /\ onlineTrace = <<>>
  /\ tfidf = NewTFIDF
  /\ tfidfIndex = <<buildTFIDFIndex(allTabs)>>
  /\ updaters = {}
  /\ textLog = NoTextLog
  /\ handlers = {}
  /\ eventLog = NoEventLog
  /\ sweeping = <<>>
  /\ aiAvailable = TRUE

\* an update begins: storage.getTFIDFIndex() is answered
UpdateRead(pass, tabId, summary) ==
  /\ textLog.adds < MaxUpdates
  /\ \A u \in updaters : u.pass # pass
  /\ IF pass = "bulk" THEN tabId \in 1..BulkTabs
     ELSE tabId \in (BulkTabs + 1)..(BulkTabs + NewTabs)
  /\ updaters' = IF tfidfIndex = <<>> THEN updaters
                 ELSE updaters \cup {[pass |-> pass, tabId |-> tabId,
                                      text |-> enrichedText(tabId, summary),
                                      indexData |-> tfidfIndex[1]]}
  /\ textLog' = [textLog EXCEPT !.op = "read", !.adds = textLog.adds + 1]
  /\ UNCHANGED <<now, relVars, suggestVars, indexVars, tfidf, tfidfIndex, eventVars>>

\* an update ends: storage.saveTFIDFIndex(tfidf.serialize()) is taken
UpdateWrite(pass) ==
  /\ \E u \in updaters :
       /\ u.pass = pass
       /\ tfidfIndex' = <<updatedIndex(u.indexData, u.tabId, u.text)>>
       /\ updaters' = updaters \ {u}
       /\ textLog' = [textLog EXCEPT !.op = "write", !.id = u.tabId, !.text = u.text,
                                     !.updated = textLog.updated \cup {u.tabId}]
  /\ UNCHANGED <<now, relVars, suggestVars, indexVars, tfidf, eventVars>>

\* the index is read for a suggestion request
ReadIndex ==
  /\ tfidfIndex # <<>>
  /\ tfidf' = deserialize(tfidfIndex[1])
  /\ textLog' = [textLog EXCEPT !.op = "load"]
  /\ UNCHANGED <<now, relVars, suggestVars, indexVars, tfidfIndex, updaters, eventVars>>

NextText ==
  \/ \E pass \in {"bulk", "online"}, tabId \in 1..(BulkTabs + NewTabs),
        summary \in Summaries : UpdateRead(pass, tabId, summary)
  \/ \E pass \in {"bulk", "online"} : UpdateWrite(pass)
  \/ ReadIndex

SpecText == InitText /\ [][NextText]_vars

\* the documents of a tab in the persisted index
StoredDocs(tabId) ==
  LET documents == deserialize(tfidfIndex[1]).documents
  IN  {i \in DOMAIN documents : documents[i].id = tabId}

\* C21: when no update of the Text Index is under way, every tab whose
\* update was written has one document in the persisted index, the enriched
\* one, every tab of the bulk pass has one document, and the document
\* frequencies are exact.
C21_NoUpdateLost ==
  updaters = {} =>
    /\ \A tabId \in textLog.updated :
         /\ Cardinality(StoredDocs(tabId)) = 1
         /\ \E summary \in Summaries :
              \A i \in StoredDocs(tabId) :
                deserialize(tfidfIndex[1]).documents[i].text = enrichedText(tabId, summary)
    /\ \A tabId \in 1..BulkTabs : Cardinality(StoredDocs(tabId)) = 1
    /\ DocumentFreqExact(deserialize(tfidfIndex[1]))

(***************************************************************************)
(* The bulk pass with one startColdStart call and with the steps that the  *)
(* program takes by itself taken in the end: an awaited call is answered,  *)
(* a timer fires, and a pause is followed by a resume.                     *)
(***************************************************************************)
\* startColdStart() is called once
StartOnce == trace.starts = 0 /\ StartColdStart

\* resumeColdStart() is called after a pause
ResumeAfterPause == trace.paused /\ \E ok \in BOOLEAN : ResumeColdStart(ok)

NextColdOnce ==
  \/ StartOnce
  \/ \E available \in BOOLEAN : StartSetUp(FALSE, available)
  \/ \E ok \in BOOLEAN : ProcessIndexingQueue(ok)
  \/ \E tab \in 1..ColdTabs : IndexingDone(tab)
  \/ PauseColdStart
  \/ ResumeAfterPause
  \/ CloseTab(ColdTabs)
  \/ TickCold

SpecColdFair ==
  /\ InitCold
  /\ [][NextColdOnce]_vars
  /\ WF_vars(\E available \in BOOLEAN : StartSetUp(FALSE, available))
  /\ WF_vars(\E ok \in BOOLEAN : ProcessIndexingQueue(ok))
  /\ WF_vars(\E tab \in 1..ColdTabs : IndexingDone(tab))
  /\ WF_vars(ResumeAfterPause)

\* C25: a bulk pass that runs is completed in the end: finishColdStart runs.
C25_PassCompletes == isIndexing ~> trace.finished

(***************************************************************************)
(* Both passes on a device with or without the built-in AI.  The bulk      *)
(* pass is started once; pages finish loading in the open tabs at any      *)
(* time.                                                                   *)
(***************************************************************************)
LiteTabs == 2   \* tabs of the window

InitLite ==
  /\ now = 0
  /\ tabsIndex = {}
  /\ relationships = {}
  /\ relSeq = 0
  /\ navigationHistory = <<>>
  /\ lastSweep = {}
  /\ allTabs = [i \in 1..LiteTabs |-> i]
  /\ workflows = {}
  /\ hotCache = [lastTabCount |-> 0, cachedSuggestions |-> <<>>]
  /\ req = NoRequest
  /\ result = <<>>
  /\ isIndexing = FALSE
  /\ indexingQueue = <<>>
  /\ currentIndex = 0
  /\ calls = NoCalls
  /\ trace = NoTrace
  /\ onlineQueue = <<>>
  /\ isProcessing = FALSE
  /\ processing = <<>>
  /\ onlineTrace = <<>>
  /\ tfidf = NewTFIDF
  /\ tfidfIndex = <<>>
  /\ updaters = {}
  /\ textLog = NoTextLog
  /\ handlers = {}
  /\ eventLog = NoEventLog
  /\ sweeping = <<>>
  /\ aiAvailable \in BOOLEAN

\* startColdStart() after checkAIAvailability() on this device
SetUpOnDevice == StartSetUp(FALSE, aiAvailable)

NextLite ==
  \/ StartOnce
  \/ SetUpOnDevice
  \/ \E ok \in BOOLEAN : ProcessIndexingQueue(ok)
  \/ \E tab \in 1..LiteTabs : IndexingDone(tab)
  \/ \E tabId \in 1..LiteTabs : OnUpdated(tabId)
  \/ \E ok \in BOOLEAN : IndexTabOnlineDone(ok)
  \/ ProcessQueueNext
  \/ TickCold

SpecLite == InitLite /\ [][NextLite]_vars

\* C26, for the Tab Documents: with or without the built-in AI, every tab
\* of a bulk pass whose start call is over has its document, and so has
\* every tab that the incremental queue took up.
C26_LiteDocumentsAlways ==
  /\ (trace.starts >= 1 /\ calls.fresh = 0) =>
       \A i \in DOMAIN allTabs : \E d \in tabsIndex : d.url = PageOf(allTabs[i])
  /\ \A i \in DOMAIN onlineTrace :
       \E d \in tabsIndex : d.url = PageOf(onlineTrace[i].tab)

(***************************************************************************)
(* The listeners of background.js and the write of performIndexing on one  *)
(* document.  A handler that reads the document and then calls             *)
(* db.updateTab with what it read is two steps, the read and the update;   *)
(* handlers holds the handlers between the two, each with the document it  *)
(* read.  eventLog counts the handlers that began (started) and lists the  *)
(* documents whose activation was seen (activated).                        *)
(***************************************************************************)
EventTabs == 2     \* tabs open at the beginning, each with its document
MaxHandlers == 2   \* handlers between their read and their update
MaxEvents == 3     \* handlers in all

\* db.updateTab(id, updates): the updates are merged into the stored record
updateTab(docs, id, updates) ==
  {IF StrictEq(d.id, id)
     THEN [field \in DOMAIN d |->
             IF field \in DOMAIN updates THEN updates[field] ELSE d[field]]
     ELSE d : d \in docs}

\* what a handler writes: onActivated the access count it read plus one,
\* performIndexing the content, and the flags it read with isIndexed set
updatesOf(h) ==
  IF h.kind = "activated"
    THEN [accessCount |-> h.dbEntry.accessCount + 1]
    ELSE [entities |-> {}, topics |-> {},
          isActive |-> h.dbEntry.isActive, isIndexed |-> TRUE]

InitEvents ==
  /\ now = 0
  /\ tabsIndex = {LiteEntry(k, 0) : k \in 1..EventTabs}
  /\ relationships = {}
  /\ relSeq = 0
  /\ navigationHistory = <<>>
  /\ lastSweep = {}
  /\ allTabs = [i \in 1..EventTabs |-> i]
  /\ workflows = {}
  /\ hotCache = [lastTabCount |-> 0, cachedSuggestions |-> <<>>]
  /\ req = NoRequest
  /\ result = <<>>
  /\ IndexingIdle

\* a handler reads the document of a tab: `await db.getTabByTabId(tabId)`
BeginHandler(kind, tabId) ==
  /\ tabId \in Range(allTabs)
  /\ Cardinality(handlers) < MaxHandlers
  /\ eventLog.started < MaxEvents
  /\ LET dbEntry == getTabByTabId(tabsIndex, tabId)
     IN  IF dbEntry = {}
           THEN /\ eventLog' = [eventLog EXCEPT !.started = eventLog.started + 1]
                /\ UNCHANGED handlers
           ELSE LET d == CHOOSE e \in dbEntry : TRUE
                IN  /\ handlers' = handlers \cup
                                     {[n |-> eventLog.started + 1, kind |-> kind, dbEntry |-> d]}
                    /\ eventLog' = [eventLog EXCEPT
                                      !.started = eventLog.started + 1,
                                      !.activated = IF kind = "activated"
                                                      THEN Append(eventLog.activated, d.id)
                                                      ELSE eventLog.activated]
  /\ UNCHANGED <<now, relVars, suggestVars, indexVars, textVars, sweeping, aiAvailable>>

\* the onActivated listener up to its update
OnActivated(tabId) == BeginHandler("activated", tabId)

\* performIndexing(tab) at `const dbEntry = await db.getTabByTabId(tab.id)`
WriteBack(tabId) == BeginHandler("indexed", tabId)

\* the db.updateTab of a handler
HandlerUpdate(n) ==
  /\ \E h \in handlers :
       /\ h.n = n
       /\ tabsIndex' = updateTab(tabsIndex, h.dbEntry.id, updatesOf(h))
       /\ handlers' = handlers \ {h}
  /\ UNCHANGED <<now, relationships, relSeq, navigationHistory, lastSweep, suggestVars,
                 indexVars, textVars, eventLog, sweeping, aiAvailable>>

\* a page finished loading in an open tab
PageLoaded(tabId) == tabId \in Range(allTabs) /\ OnUpdated(tabId)

NextEvents ==
  \/ \E tabId \in 1..EventTabs : OnActivated(tabId)
  \/ \E tabId \in 1..EventTabs : WriteBack(tabId)
  \/ \E n \in 1..MaxEvents : HandlerUpdate(n)
  \/ \E k \in 1..EventTabs : CloseTab(k)
  \/ OpenTab(OnlineTabs, Len(allTabs))
  \/ PageLoaded(OnlineTabs)

SpecEvents == InitEvents /\ [][NextEvents]_vars

\* C27: when no handler is between its read and its update, a document is
\* active exactly when the tab of its tab id is open.
C27_ActiveIffOpen ==
  handlers = {} =>
    \A d \in tabsIndex : d.isActive <=> d.tabId \in Range(allTabs)

\* how often x is in the sequence s
Occurrences(s, x) == Cardinality({i \in DOMAIN s : s[i] = x})

\* C29: the access count of a document never goes down, and when no handler
\* is between its read and its update it is the number of activations of
\* the document.
C29_AccessCountMonotonic ==
  /\ [](handlers = {} =>
          \A d \in tabsIndex : d.accessCount = Occurrences(eventLog.activated, d.id))
  /\ [][\A d \in tabsIndex : \A e \in tabsIndex' :
          e.id = d.id => e.accessCount >= d.accessCount]_vars

(***************************************************************************)
(* The decay sweep in steps.  applyRelationshipDecay() reads all           *)
(* relationships and the clock once, then awaits one delete or update for  *)
(* each relationship in turn; other handlers and the enrichment sweep run  *)
(* between these.  sweeping holds the sweep under way: the relationships   *)
(* it still has to go through (rest), its reading of the clock (at), the   *)
(* ids it read (all) and the ids it has come to (seen).  eventLog.swept    *)
(* keeps all and seen of the sweeps that ended.                            *)
(***************************************************************************)
MaxSweeps == 1   \* decay sweeps

\* db.getAllRelationships(): the records in the order of their keys
RECURSIVE getAllRelationships(_)
getAllRelationships(rels) ==
  IF rels = {} THEN <<>>
  ELSE LET first == CHOOSE r \in rels : \A q \in rels : q.id = r.id \/ KeyBefore(r.id, q.id)
       IN  <<first>> \o getAllRelationships(rels \ {first})

\* db.deleteRelationship(id)
deleteRelationship(rels, id) == {r \in rels : r.id # id}

\* db.updateRelationship(id, { strength }) on a record that is stored
updateStrength(rels, id, strength) ==
  {IF r.id = id THEN [r EXCEPT !.strength = strength] ELSE r : r \in rels}

\* applyRelationshipDecay() up to its loop
DecayBegin ==
  /\ sweeping = <<>>
  /\ Len(eventLog.swept) < MaxSweeps
  /\ relationships # {}
  /\ sweeping' = <<[rest |-> getAllRelationships(relationships), at |-> now,
                    all |-> {r.id : r \in relationships}, seen |-> {}]>>
  /\ lastSweep' = {}
  /\ UNCHANGED <<now, tabsIndex, relationships, relSeq, navigationHistory, suggestVars,
                 indexVars, textVars, handlers, eventLog, aiAvailable>>

\* one iteration of the loop.  db.updateRelationship rejects for an id that
\* is not stored; the rejection leaves the loop for the catch of the
\* function, and the sweep is over.
DecayStep ==
  /\ sweeping # <<>>
  /\ LET s == sweeping[1]
         rel == Head(s.rest)
         outcome == DecayOne(rel, s.at)
         seen == s.seen \cup {rel.id}
         stored == \E r \in relationships : r.id = rel.id
         rejected == outcome # {} /\ outcome # {rel} /\ ~stored
         over == rejected \/ Len(s.rest) = 1
     IN  /\ relationships' =
              IF outcome = {} THEN deleteRelationship(relationships, rel.id)
              ELSE IF outcome = {rel} \/ ~stored THEN relationships
              ELSE updateStrength(relationships, rel.id,
                                  (CHOOSE r \in outcome : TRUE).strength)
         /\ sweeping' = IF over THEN <<>>
                        ELSE <<[s EXCEPT !.rest = Tail(s.rest), !.seen = seen]>>
         /\ eventLog' = IF over
                          THEN [eventLog EXCEPT !.swept =
                                  Append(eventLog.swept, [all |-> s.all, seen |-> seen])]
                          ELSE eventLog
  /\ lastSweep' = {}
  /\ UNCHANGED <<now, tabsIndex, relSeq, navigationHistory, suggestVars,
                 indexVars, textVars, handlers, aiAvailable>>

NextSweep ==
  \/ \E k \in TabIds : PerformIndexing(k, PlainPage)
  \/ \E k \in TabIds, c \in Contents, ok \in BOOLEAN : IndexTabOnline(k, c, ok)
  \/ \E a \in TabIds, b \in TabIds : HandleTabSwitch(a, b)
  \/ EnrichRelationshipsWithAI
  \/ DecayBegin
  \/ DecayStep
  \/ TickRel

SpecSweep == InitRel /\ [][NextSweep]_vars

\* C28: a decay sweep that ended has come to every relationship it read.
C28_SweepGoesOn ==
  \A i \in DOMAIN eventLog.swept : eventLog.swept[i].seen = eventLog.swept[i].all

\* C30: after a mining pass the workflow store, which predictNextTab reads
\* whole, holds patterns for exactly the URL chains that occur at least 3
\* times among the sequences of the last 30 days, each with the frequency
\* this pass counted; nothing an earlier pass stored remains beside them.
C30_PatternsDerivedFresh ==
  [][(\E descending \in BOOLEAN : DetectWorkflows(descending)) =>
       LET nav == navigationHistory
           starts(len) == {i \in 1..Len(nav) :
                             /\ i + len - 1 <= Len(nav)
                             /\ nav[i].timestamp >= now - 2592000
                             /\ \A j \in 1..(len - 1) :
                                  nav[i + j].timestamp - nav[i + j - 1].timestamp <= 600}
           chainAt(i, len) == [j \in 1..len |-> nav[i + j - 1].toTab.url]
           count(chain) == Cardinality({i \in starts(Len(chain)) :
                                          chainAt(i, Len(chain)) = chain})
           chains == UNION {{chainAt(i, len) : i \in starts(len)} : len \in 2..5}
       IN  {<<w.pattern, w.frequency>> : w \in workflows'}
             = {<<chain, count(chain)>> : chain \in {c \in chains : count(c) >= 3}}]_vars

(***************************************************************************)
(* Failures of one tab in the bulk pass.  performIndexing(tab) meets one   *)
(* of these: the tab was closed, the content script fails or does not      *)
(* answer in ten seconds, the page has fewer than 50 characters, the       *)
(* summarizer rejects, the language model rejects.  eventLog.failed keeps, *)
(* for every tab whose indexing ended, what it met (failure), its queue    *)
(* position (at), the store before and after, and whether an exception     *)
(* left indexTabWithAI (thrown).                                           *)
(***************************************************************************)
Failures == {"none", "closed", "extraction", "timeout", "short", "summarize", "prompt"}

\* the outcome of Promise.race([extractTabContent, timeout]).catch(() => null):
\* null, a text below 50 characters, or a long text
rawTextOf(failure) ==
  IF failure \in {"extraction", "timeout"} THEN "null"
  ELSE IF failure = "short" THEN "short" ELSE "long"

\* only a missing text counts as insufficient
insufficientOnlyNull(rawText) == rawText = "null"

\* !rawText || rawText.length < 50
insufficient(rawText) == rawText \in {"null", "short"}

\* extractMetadataWithSession(cleanText, summary): the answer of the language
\* model, or extractManualMetadata(summary) when the prompt rejects: keywords
\* only, no entity and no topic
extractMetadataWithSession(c, failure) ==
  IF failure = "prompt" THEN [entities |-> {}, topics |-> {}] ELSE c

\* indexTabWithAI(tab): performIndexing(tab) within try/catch.  The result
\* is the store and whether an exception leaves the function.  A rejecting
\* summarizer is answered by the first 200 words; nothing the document keeps
\* in this model depends on the summary.
indexTabWithAI(docs, open, tabId, c, failure) ==
  IF failure = "closed" \/ tabId \notin open THEN [docs |-> docs, thrown |-> FALSE]
  ELSE IF insufficient(rawTextOf(failure)) THEN [docs |-> docs, thrown |-> FALSE]
  ELSE [docs |-> performIndexing(docs, tabId, extractMetadataWithSession(c, failure)),
        thrown |-> FALSE]

\* processIndexingQueue() from the answer of indexTabWithAI on: the catch
\* around the call, currentIndex++, and the timer for the next call
IndexingEnds(tab, c, failure) ==
  /\ tab \in Range(calls.inFlight)
  /\ failure = "closed" <=> tab \notin Range(allTabs)
  /\ LET out == indexTabWithAI(tabsIndex, Range(allTabs), tab, c, failure)
     IN  /\ tabsIndex' = out.docs
         /\ currentIndex' = currentIndex + 1
         /\ calls' = [calls EXCEPT !.inFlight = RemoveOne(calls.inFlight, tab),
                                   !.pending = calls.pending + 1]
         /\ eventLog' = [eventLog EXCEPT !.failed = Append(eventLog.failed,
                           [tab |-> tab, failure |-> failure, thrown |-> out.thrown,
                            before |-> tabsIndex, after |-> out.docs,
                            at |-> currentIndex])]
  /\ UNCHANGED <<now, relationships, relSeq, navigationHistory, lastSweep,
                 suggestVars, isIndexing, indexingQueue, trace, onlineVars,
                 textVars, handlers, sweeping, aiAvailable>>

NextFail ==
  \/ StartOnce
  \/ StartSetUp(FALSE, TRUE)
  \/ ProcessIndexingQueue(TRUE)
  \/ \E tab \in 1..ColdTabs, c \in Contents, failure \in Failures :
       IndexingEnds(tab, c, failure)
  \/ CloseTab(ColdTabs)
  \/ TickCold

SpecFail == InitCold /\ [][NextFail]_vars

C32_EnrichedOnce ==
  /\ [](\A answers \in [Asked(relationships, tabsIndex) -> SemOutcomes] :
          LET once == enrichRelationshipsWithAI(relationships, tabsIndex, answers)
          IN  /\ \A r \in relationships : r.isAIEnriched => r \in once
              /\ \A again \in [Asked(once, tabsIndex) -> SemOutcomes] :
                   enrichRelationshipsWithAI(once, tabsIndex, again) = once)
  /\ [][EnrichRelationshipsWithAI =>
          \A r \in relationships : r.isAIEnriched => r \in relationships']_vars

\* the last sweep enriched a relationship while the store held another one
\* that an earlier sweep had enriched, with shared entities that would add
\* to its strength again
C32_Witness ==
  /\ lastSweep # {}
  /\ \E r \in relationships, q \in relationships :
       /\ r.isAIEnriched /\ r.sharedEntities # {}
       /\ r.id \notin {e.id : e \in lastSweep}
       /\ q.isAIEnriched /\ q.id \in {e.id : e \in lastSweep}

(***************************************************************************)
(* hybrid-scoring.js: the behavioral and the relationship signal.  Both    *)
(* are called with Chrome tab ids (currentTab.id, candidateTab.id of the   *)
(* chrome.tabs.query result).                                              *)
(***************************************************************************)
\* db.getNavigationHistory(tabId, limit): index('fromTabId').getAll(tabId) on
\* the key path fromTab.tabId, newest first, the first limit of them.  The
\* log is in the order of its timestamps.
getNavigationHistory(nav, tabId, limit) ==
  LET hits == SelectSeq(nav, LAMBDA e : StrictEq(e.fromTab.tabId, tabId))
      newestFirst == [i \in 1..Len(hits) |-> hits[Len(hits) + 1 - i]]
  IN  FirstN(newestFirst, limit)

\* calculateBehavioralScore(currentTabId, candidateTabId), in hundredths
calculateBehavioralScore(nav, currentTabId, candidateTabId) ==
  LET history == getNavigationHistory(nav, JsNum(currentTabId), 100)
      switches == SelectSeq(history,
                            LAMBDA e : StrictEq(e.toTab.tabId, JsNum(candidateTabId)))
  IN  Min(10 * Len(switches), 100)

\* db.getRelationshipsForTab(tabId): index('tab1').getAll(tabId) and
\* index('tab2').getAll(tabId).  The indexes are created on the key paths
\* 'tab1' and 'tab2'; a record is in an index only if it has the property of
\* the key path, and the records have tab1Id and tab2Id.
getRelationshipsForTab(rels, tabId) ==
  {r \in rels : \/ "tab1" \in DOMAIN r /\ StrictEq(r["tab1"], tabId)
                \/ "tab2" \in DOMAIN r /\ StrictEq(r["tab2"], tabId)}

\* calculateRelationshipScore(currentTabId, candidateTabId), in 1/10000
calculateRelationshipScore(docs, rels, currentTabId, candidateTabId) ==
  LET currentTab == getTabByTabId(docs, currentTabId)
      candidateTab == getTabByTabId(docs, candidateTabId)
      cur == CHOOSE d \in currentTab : TRUE
      cand == CHOOSE d \in candidateTab : TRUE
      found == {r \in getRelationshipsForTab(rels, cur.id) :
                  \/ StrictEq(r.tab1Id, cand.id)
                  \/ StrictEq(r.tab2Id, cand.id)}
      relation == CHOOSE r \in found :
                    \A q \in found : q.id = r.id \/ KeyBefore(r.id, q.id)
      score == IF relation.isAIEnriched /\ relation.semanticScore > 0
                 THEN Max(relation.strength, relation.semanticScore)
                 ELSE relation.strength
  IN  IF currentTab = {} \/ candidateTab = {} THEN 0
      ELSE IF found = {} THEN 0
      ELSE Min(score, 10000)

\* C33: the behavioral signal of a candidate is min(k/10, 1) for the number
\* k of navigation events, among the last 100 recorded from the current
\* tab's document, that went to the candidate's document.
C33_BehavioralSignal ==
  \A a \in TabIds, b \in TabIds :
    LET from == getTabByTabId(tabsIndex, a)
        to == getTabByTabId(tabsIndex, b)
        fromHere == SelectSeq(navigationHistory,
                              LAMBDA e : \E d \in from : e.fromTab.tabId = d.id)
        last100 == SubSeq(fromHere, Max(1, Len(fromHere) - 99), Len(fromHere))
        k == Len(SelectSeq(last100, LAMBDA e : \E d \in to : e.toTab.tabId = d.id))
    IN  calculateBehavioralScore(navigationHistory, a, b) = Min(10 * k, 100)

\* C34: the relationship signal of a candidate is 0 only if the store holds
\* no relationship between the two documents; otherwise it is the strength
\* of one, or the larger of strength and semantic score when that one is
\* AI-enriched with a semantic score above 0.
C34_RelationshipSignal ==
  \A a \in TabIds, b \in TabIds :
    LET from == getTabByTabId(tabsIndex, a)
        to == getTabByTabId(tabsIndex, b)
        between == {r \in relationships :
                      \E f \in from, t \in to :
                        \/ r.tab1Id = f.id /\ r.tab2Id = t.id
                        \/ r.tab1Id = t.id /\ r.tab2Id = f.id}
        signal == calculateRelationshipScore(tabsIndex, relationships, a, b)
    IN  a # b =>
          /\ signal = 0 => between = {}
          /\ between # {} =>
               \E r \in between :
                 signal = IF r.isAIEnriched /\ r.semanticScore > 0
                            THEN Min(Max(r.strength, r.semanticScore), 10000)
                            ELSE Min(r.strength, 10000)

(***************************************************************************)
(* Suggestion requests in a window where a tab is closed and another one   *)
(* is opened: the tab count is what it was, the tabs are not.              *)
(***************************************************************************)
\* the tab that is opened in this window: one the window did not have
NewTab == WindowTabs + 1

NextSwap ==
  \/ \E k \in 1..(WindowTabs - 1), profile \in SignalProfiles : Request(k, profile, {})
  \/ \E k \in {WindowTabs, NewTab} : OpenTab(k, Len(allTabs))
  \/ \E k \in {WindowTabs, NewTab} : CloseTab(k)
  \/ TickSuggest

SpecSwap == InitSuggest /\ [][NextSwap]_vars

\* C35: every entry of the list a request returns, the entries taken from
\* the cache included, is a tab that is open when the request is made.
C35_OnlyOpenTabs ==
  req.served # "none" => \A i \in DOMAIN result : result[i].id \in Range(allTabs)

(***************************************************************************)
(* A routine that comes back to the same page: the user follows a          *)
(* suggestion to a page, returns to where they were by the tab strip       *)
(* (which records nothing), and follows the suggestion to that page again. *)
(***************************************************************************)
Revisits == {<<2, 2>>, <<1, 2, 2>>, <<2, 2, 3>>}

InitRevisit ==
  /\ now = WfStart
  /\ tabsIndex = {LiteEntry(k, 0) : k \in 1..WfTabs}
  /\ \E targets \in Revisits, days \in 0..MaxRoutineDays :
       /\ navigationHistory = RoutineLog(tabsIndex, targets, days)
       /\ relationships = RoutineRelationships(tabsIndex, navigationHistory,
                                               Len(navigationHistory))
       /\ relSeq = Len(navigationHistory)
  /\ lastSweep = {}
  /\ allTabs = [i \in 1..WfTabs |-> i]
  /\ workflows = {}
  /\ hotCache = [lastTabCount |-> 0, cachedSuggestions |-> <<>>]
  /\ req = NoRequest
  /\ result = <<>>
  /\ IndexingIdle

SpecRevisit == InitRevisit /\ [][NextWf]_vars

\* C36: predictNextTab never returns the current tab itself: a prediction
\* made for a tab is a document of another tab.
C36_NeverCurrentTab ==
  req.served = "prediction" =>
    \A i \in DOMAIN result : result[i].tab.tabId # req.tabId

(***************************************************************************)
(* The incremental queue under fair scheduling: an indexTabOnline that was *)
(* started ends, and the timer of the pause of processQueue fires.         *)
(***************************************************************************)
NextQueue ==
  \/ \E tab \in 1..OnlineTabs, priority \in {"normal", "high"} :
       QueueTabForIndexing(tab, priority)
  \/ \E ok \in BOOLEAN : IndexTabOnlineDone(ok)
  \/ ProcessQueueNext
  \/ TickOnline

SpecQueueFair ==
  /\ InitOnline
  /\ [][NextQueue]_vars
  /\ WF_vars(\E ok \in BOOLEAN : IndexTabOnlineDone(ok))
  /\ WF_vars(ProcessQueueNext)

\* the enqueue numbered n is waiting
Pending(n) == \E i \in DOMAIN onlineQueue : onlineQueue[i].n = n

\* the enqueue numbered n was taken by processQueue and its indexTabOnline
\* has ended
Processed(n) ==
  /\ \E i \in DOMAIN onlineTrace : onlineTrace[i].n = n
  /\ \A i \in DOMAIN processing : processing[i].n # n

\* C37: every tab queueTabForIndexing accepted is taken by processQueue
\* exactly once and, indexing steps ending, eventually processed; a tab that
\* is waiting is not queued a second time; and when no processQueue is
\* running the queue is empty.
C37_QueueDrains ==
  /\ [](/\ \A i \in DOMAIN onlineQueue, j \in DOMAIN onlineQueue :
             onlineQueue[i].tab = onlineQueue[j].tab => i = j
        /\ ~isProcessing => onlineQueue = <<>>
        /\ LET all == onlineTrace \o onlineQueue
           IN  \A n \in 1..Len(all) :
                 Cardinality({i \in DOMAIN all : all[i].n = n}) = 1)
  /\ \A n \in 1..MaxQueued : Pending(n) ~> Processed(n)

\* the queue is over after an item that had waited behind a later one, and
\* after a tab that was accepted twice
C37_Witness ==
  /\ ~isProcessing
  /\ \E i \in DOMAIN onlineTrace, j \in DOMAIN onlineTrace :
       i < j /\ onlineTrace[i].n > onlineTrace[j].n
  /\ \E i \in DOMAIN onlineTrace, j \in DOMAIN onlineTrace :
       i # j /\ onlineTrace[i].tab = onlineTrace[j].tab
  /\ \A n \in 1..Len(onlineTrace) : Processed(n)

\* the document with this id is in the store and indexed
IndexedDoc(id) == \E d \in getTab(tabsIndex, id) : d.isIndexed

\* C38: an enrichment sweep deletes every relationship not yet AI-enriched
\* of which exactly one document is indexed, whatever its strength: no
\* semantic analysis is made for it and the two documents share no entity
\* and no topic.
C38_HalfIndexedDeleted ==
  /\ [](/\ \A d \in tabsIndex : ~d.isIndexed => d.entities = {} /\ d.topics = {}
        /\ \A answers \in [Asked(relationships, tabsIndex) -> SemOutcomes] :
             \A r \in relationships :
               (~r.isAIEnriched /\ IndexedDoc(r.tab1Id) # IndexedDoc(r.tab2Id)) =>
                 \A q \in enrichRelationshipsWithAI(relationships, tabsIndex, answers) :
                   q.id # r.id)
  /\ [][EnrichRelationshipsWithAI =>
          \A r \in relationships :
            (~r.isAIEnriched /\ IndexedDoc(r.tab1Id) # IndexedDoc(r.tab2Id)) =>
              \A q \in relationships' : q.id # r.id]_vars

\* the last sweep examined, without a semantic analysis, a relationship
\* that the decay had weakened, and the store has it no longer
C38_Witness ==
  \E e \in lastSweep :
    /\ ~e.analysed
    /\ e.strength < 3000
    /\ \A q \in relationships : q.id # e.id

(***************************************************************************)
(* filterTerms on a corpus that grows page by page past ten documents.     *)
(***************************************************************************)
MaxCorpus == 12     \* documents added to the instance

\* the pages that are added: most of them the first one
Pages == {<<"tab", "doc", "of">>, <<"web", "doc", LongWord>>}

\* the terms filterTerms is asked about: words short and long, words of
\* the pages, a word of no page, and bi-grams
ProbeTerms ==
  <<<<"of">>, <<"tab">>, <<"doc">>, <<"web">>, <<LongWord>>, <<"egg">>,
    <<"tab", "doc">>, <<"web", "doc">>>>

\* addDocument(text, id) for the next page
AddPage(text) ==
  /\ Len(tfidf.documents) < MaxCorpus
  /\ tfidf' = addDocument(tfidf, text, Len(tfidf.documents) + 1, <<>>)
  /\ textLog' = [textLog EXCEPT !.op = "add", !.id = Len(tfidf.documents) + 1,
                                !.text = text, !.before = tfidf, !.score = 0]
  /\ UNCHANGED <<now, relVars, suggestVars, indexVars, tfidfIndex, updaters, eventVars>>

\* filterTerms(terms) is asked; result holds what it returns
FilterTerms(terms) ==
  /\ result' = filterTerms(tfidf, terms)
  /\ textLog' = [textLog EXCEPT !.op = "filterTerms", !.id = 0, !.text = <<>>,
                                !.before = tfidf, !.score = 0]
  /\ UNCHANGED <<now, relVars, allTabs, workflows, hotCache, req, indexVars,
                 tfidf, tfidfIndex, updaters, eventVars>>

NextFilter ==
  \/ \E text \in Pages : AddPage(text)
  \/ FilterTerms(ProbeTerms)

SpecFilter == InitTfidf /\ [][NextFilter]_vars

\* the rule for one term on the statistics of an instance
Keeps(x, term) ==
  LET numDocs == Len(x.documents)
      df == MapGet(x.documentFreq, term, 0)
  IN  /\ termLength(term) >= 3 /\ termLength(term) <= 30
      /\ ~(numDocs >= 3 /\ 100 * df > 40 * numDocs)
      /\ ~(numDocs > 10 /\ df = 1)

\* C39: filterTerms keeps a term if and only if its length is 3 to 30, it
\* is not in strictly more than 40% of the documents of a corpus of at least
\* 3, and, in a corpus of more than 10 documents, it is not in exactly one;
\* the statistics are those of the instance when filterTerms is called, for
\* addDocument those before the document is counted.
C39_FilterTerms ==
  /\ [](textLog.op = "filterTerms" =>
          result = SelectSeq(ProbeTerms, LAMBDA term : Keeps(tfidf, term)))
  /\ [][(\E text \in Pages : AddPage(text)) =>
          LET added == tfidf'.termFreqs[Len(tfidf'.termFreqs)]
              tokens == tokenize(textLog'.text)
              kept == SelectSeq(tokens, LAMBDA term : Keeps(tfidf, term))
          IN  /\ Len(added.terms) >= Len(kept)
              /\ SubSeq(added.terms, 1, Len(kept)) = kept
              /\ \A i \in (Len(kept) + 1)..Len(added.terms) :
                   Len(added.terms[i]) > 1]_vars

\* filterTerms was asked on a corpus of more than 10 documents and dropped a
\* word that is in one document only, dropped a word that is in more than
\* 40% of them, and kept a term
C39_Witness ==
  /\ textLog.op = "filterTerms"
  /\ Len(tfidf.documents) > 10
  /\ result # <<>>
  /\ \E i \in DOMAIN ProbeTerms :
       /\ MapGet(tfidf.documentFreq, ProbeTerms[i], 0) = 1
       /\ \A j \in DOMAIN result : result[j] # ProbeTerms[i]
  /\ \E i \in DOMAIN ProbeTerms :
       /\ isStopWord(tfidf, ProbeTerms[i])
       /\ \A j \in DOMAIN result : result[j] # ProbeTerms[i]

(***************************************************************************)
(* A corpus of three short documents that share words two by two, and the  *)
(* score of a query of one word.                                           *)
(***************************************************************************)
Fruits == <<<<"apple", "banana", "cherry">>,
            <<"banana", "cherry", "date">>,
            <<"cherry", "date", "egg">>>>

FruitWords == {"apple", "banana", "cherry", "date", "egg"}

NextFruit ==
  \/ \E id \in DOMAIN Fruits :
       /\ \A i \in DOMAIN tfidf.documents : tfidf.documents[i].id # id
       /\ AddDocument(Fruits[id], id)
  \/ \E word \in FruitWords, documentId \in DOMAIN Fruits : Bm25(<<word>>, documentId)

SpecFruit == InitTfidf /\ [][NextFruit]_vars

\* the three documents were added in their order
FruitsInOrder ==
  /\ Len(tfidf.documents) = Len(Fruits)
  /\ \A i \in DOMAIN Fruits :
       tfidf.documents[i].id = i /\ tfidf.documents[i].text = Fruits[i]

\* C40: with the corpus "apple banana cherry", "banana cherry date",
\* "cherry date egg" added in this order, the query "banana" scores
\* document 2 at or above document 1.
C40_BananaScores ==
  /\ FruitsInOrder =>
       bm25(tfidf, <<"banana">>, 2) >= bm25(tfidf, <<"banana">>, 1)
  /\ \A i \in {1, 2} :
       (FruitsInOrder /\ textLog.op = "bm25" /\ textLog.text = <<"banana">>
        /\ textLog.id = i) => textLog.score = bm25(tfidf, <<"banana">>, i)

\* the score of "banana" for document 2 was asked on the corpus in order;
\* both documents hold the word
C40_Witness ==
  /\ FruitsInOrder
  /\ textLog.op = "bm25" /\ textLog.text = <<"banana">> /\ textLog.id = 2
  /\ \A i \in {1, 2} : MapHas(tfidf.termFreqs[i].termFreq, <<"banana">>)
====
